---------------------------- MODULE Spec2Model ----------------------------
(***************************************************************************)
(* Reflow oven controller: active-object framework (active.c), table       *)
(* driven reflow state machine (reflow.c) and PID controller (pid.c).      *)
(*                                                                         *)
(* Threads of the firmware that appear here:                               *)
(*   - the reflow active object's thread (Active_event_loop running        *)
(*     reflow_evt_handler), position hpc;                                  *)
(*   - the RTOS timer service task, which runs both software-timer         *)
(*     callbacks (reflow_pid_iteration and TimeEvent_tick) one at a time,  *)
(*     position tpc;                                                       *)
(*   - the command thread, which runs the reflow command callbacks.        *)
(* Thread priorities are not fixed by the sources, so the threads          *)
(* interleave freely at the step boundaries below.                         *)
(*                                                                         *)
(* float values are fixed point numbers with FX units per degree (and per  *)
(* PWM count); divisions round towards minus infinity.                     *)
(***************************************************************************)
EXTENDS Integers, Sequences, FiniteSets, TLC

(***************************************************************************)
(* Program constants.                                                      *)
(***************************************************************************)
\* common.h: mod_err_t
MOD_OK == "MOD_OK"
MOD_ERR_ARG == "MOD_ERR_ARG"
MOD_ERR_TIMEOUT == "MOD_ERR_TIMEOUT"

\* active.h: enum ReservedSignals, reflow.h: enum ReflowSignal
INIT_SIG == 0
ENTRY_SIG == 1
START_REFLOW_SIG == 2
REACH_TIME_SIG == 3
REACH_TEMP_SIG == 4
STOP_REFLOW_SIG == 5
NUM_REFLOW_SIGS == 6

\* reflow.c: Reflow_State
RESET_STATE == 0
PREHEAT_STATE == 1
SOAK_STATE == 2
RAMPUP_STATE == 3
PEAK_STATE == 4
COOLDOWN_STATE == 5
NUM_REFLOW_STATES == 6

RunningStates == PREHEAT_STATE .. COOLDOWN_STATE

\* reflow.c: Reflow_Status
TRAN_STATUS == "TRAN"
HANDLED_STATUS == "HANDLED"
IGNORE_STATUS == "IGNORE"
INIT_STATUS == "INIT"

\* reflow.c: phase_type
REACHTEMP == "REACHTEMP"
REACHTIME == "REACHTIME"

\* MAX31855K.c: HJ_RES is 1/HJ_DIV degrees per count
HJ_DIV == 4
\* fixed point units per degree
FX == HJ_DIV * 12

\* reflow.c: reflow_ao.reflow_phases (index = state - 1)
reflow_phases ==
    << [phase_type |-> REACHTEMP, reach_temp |-> 100, reach_time |-> 0],
       [phase_type |-> REACHTIME, reach_temp |-> 150, reach_time |-> 120],
       [phase_type |-> REACHTEMP, reach_temp |-> 215, reach_time |-> 0],
       [phase_type |-> REACHTIME, reach_temp |-> 215, reach_time |-> 5],
       [phase_type |-> REACHTEMP, reach_temp |-> 35, reach_time |-> 0] >>

\* reflow_ao.reflow_phases[i] for an index i inside the array
Phase(i) == reflow_phases[i + 1]

\* reflow.h: initial PID configuration (Ts = TS_NUM / TS_DEN seconds)
KP_INIT == 10
KI_INIT == 0
KD_INIT == 0
TAU_INIT == 1
TS_NUM == 1
TS_DEN == 2
OUT_MAX_INIT == 4095
OUT_MIN_INIT == 0

\* reflow.c: reflow_start, queue capacity of the reflow active object
REFLOW_MSG_COUNT == 5


(***************************************************************************)
(* C conversions.                                                          *)
(***************************************************************************)
\* A uint32_t is held as its 32 bit pattern read in two's complement, so
\* 0xFFFFFFFE is -2: sums and differences of small values then wrap as the
\* C does, and the order of two values is the unsigned one.
U32Lt(x, y) == IF (x < 0) = (y < 0) THEN x < y ELSE y < 0

U32Gt(x, y) == U32Lt(y, x)

\* (uint32_t)f for a float f: truncation towards zero.  For f <= -1.0 the
\* conversion is undefined; builds produce 0 (saturating conversion) or the
\* two's complement wrap, so the result is a set of outcomes.
U32OfFloat(f) ==
    IF f >= 0 THEN {f \div FX}
    ELSE IF f > -FX THEN {0}
    ELSE {0, -((-f) \div FX)}

\* (uint16_t)f for a float f in range: truncation towards zero.
U16OfFloat(f) == IF f >= 0 THEN (f \div FX) % 65536 ELSE 0

\* (float)n for an unsigned integer n.
FloatOfU32(n) == n * FX

(***************************************************************************)
(* pid.c                                                                   *)
(***************************************************************************)
\* SAMESIGN comparing with < instead of <=.
SAMESIGN_strict(X, Y) == (X < 0) = (Y < 0)

SAMESIGN(X, Y) == (X <= 0) = (Y <= 0)

\* PID_Reset without line 84 (out is kept).
PID_Reset_out_kept(pid) ==
    [pid EXCEPT !.integral = 0, !.prev_error = 0, !.derivative = 0,
                !.prev_measurement = 0, !.proportional = 0]

PID_Reset(pid) ==
    [pid EXCEPT !.integral = 0, !.prev_error = 0, !.derivative = 0,
                !.prev_measurement = 0, !.out = 0, !.proportional = 0]

PID_Init(cfg) ==
    [Kp |-> cfg.Kp, Ki |-> cfg.Ki, Kd |-> cfg.Kd, tau |-> cfg.tau,
     out_lim_max |-> cfg.out_max, out_lim_min |-> cfg.out_min,
     integral |-> 0, prev_error |-> 0, derivative |-> 0,
     prev_measurement |-> 0, out |-> 0, proportional |-> 0]

\* PID_Calculate with the derivative taken on the error instead of the
\* measurement in line 55.
PID_Calculate_derivative_on_error(pid, setpoint, measurement) ==
    LET error == setpoint - measurement
        proportional == pid.Kp * error
        integral ==
            IF (pid.out = pid.out_lim_max \/ pid.out = pid.out_lim_min)
               /\ SAMESIGN(pid.out, error)
            THEN pid.integral
            ELSE pid.integral
                 + (pid.Ki * TS_NUM * (error + pid.prev_error)) \div (2 * TS_DEN)
        derivative ==
            (2 * TS_DEN * pid.Kd * (error - pid.prev_error)
             - (2 * TS_DEN * pid.tau - TS_NUM) * pid.derivative)
            \div (2 * TS_DEN * pid.tau + TS_NUM)
        sum == proportional + integral + derivative
        out == IF sum > pid.out_lim_max THEN pid.out_lim_max
               ELSE IF sum < pid.out_lim_min THEN pid.out_lim_min
               ELSE sum
    IN [pid EXCEPT !.proportional = proportional, !.integral = integral,
                   !.derivative = derivative, !.out = out,
                   !.prev_error = error, !.prev_measurement = measurement]

\* PID_Calculate without the test of lines 60-63 (no upper limit).
PID_Calculate_no_ceiling(pid, setpoint, measurement) ==
    LET error == setpoint - measurement
        proportional == pid.Kp * error
        integral ==
            IF (pid.out = pid.out_lim_max \/ pid.out = pid.out_lim_min)
               /\ SAMESIGN(pid.out, error)
            THEN pid.integral
            ELSE pid.integral
                 + (pid.Ki * TS_NUM * (error + pid.prev_error)) \div (2 * TS_DEN)
        derivative ==
            -((2 * TS_DEN * pid.Kd * (measurement - pid.prev_measurement)
               + (2 * TS_DEN * pid.tau - TS_NUM) * pid.derivative)
              \div (2 * TS_DEN * pid.tau + TS_NUM))
        sum == proportional + integral + derivative
        out == IF sum < pid.out_lim_min THEN pid.out_lim_min ELSE sum
    IN [pid EXCEPT !.proportional = proportional, !.integral = integral,
                   !.derivative = derivative, !.out = out,
                   !.prev_error = error, !.prev_measurement = measurement]

\* One PID iteration; the returned record is *pid after the call and its
\* field out is the value returned.  Ts = TS_NUM / TS_DEN.
PID_Calculate(pid, setpoint, measurement) ==
    LET error == setpoint - measurement
        proportional == pid.Kp * error
        integral ==
            IF (pid.out = pid.out_lim_max \/ pid.out = pid.out_lim_min)
               /\ SAMESIGN(pid.out, error)
            THEN pid.integral
            ELSE pid.integral
                 + (pid.Ki * TS_NUM * (error + pid.prev_error)) \div (2 * TS_DEN)
        derivative ==
            -((2 * TS_DEN * pid.Kd * (measurement - pid.prev_measurement)
               + (2 * TS_DEN * pid.tau - TS_NUM) * pid.derivative)
              \div (2 * TS_DEN * pid.tau + TS_NUM))
        sum == proportional + integral + derivative
        out == IF sum > pid.out_lim_max THEN pid.out_lim_max
               ELSE IF sum < pid.out_lim_min THEN pid.out_lim_min
               ELSE sum
    IN [pid EXCEPT !.proportional = proportional, !.integral = integral,
                   !.derivative = derivative, !.out = out,
                   !.prev_error = error, !.prev_measurement = measurement]

(***************************************************************************)
(* active.c                                                                *)
(***************************************************************************)
\* RTOS message queue put with timeout 0: appended at the tail when there
\* is room, refused otherwise.
osMessageQueuePut(q, cap, e) ==
    IF Len(q) < cap THEN [q |-> Append(q, e), ok |-> TRUE]
    ELSE [q |-> q, ok |-> FALSE]

\* Active_post without the status check of lines 74-77.
Active_post_unchecked(q, cap, e) ==
    [q |-> osMessageQueuePut(q, cap, e).q, err |-> MOD_OK]

\* Active_post on an active object's queue: [q, err].
Active_post(q, cap, e) ==
    LET r == osMessageQueuePut(q, cap, e)
    IN IF ~r.ok THEN [q |-> r.q, err |-> MOD_ERR_TIMEOUT]
       ELSE [q |-> r.q, err |-> MOD_OK]

\* TimeEvent_ctor: the fields of a new time event (disarmed).
TimeEvent_ctor(sig) == [sig |-> sig, timeout |-> 0, reload |-> 0]

\* TimeEvent_arm: te is the time event, g the globals of active.c
\* (first_arm, and the number of tick sources created and started).
TimeEvent_arm(te, g, timeout, reload) ==
    [te |-> [te EXCEPT !.timeout = timeout, !.reload = reload],
     g |-> IF g.first_arm = FALSE
           THEN [g EXCEPT !.ms_timers = g.ms_timers + 1, !.first_arm = TRUE]
           ELSE g]

TimeEvent_disarm(te) == [te EXCEPT !.timeout = 0]


(***************************************************************************)
(* reflow.c: table actions.  a is reflow_ao, g the globals of active.c,    *)
(* rx what the thermocouple transfer delivers if the action reads the      *)
(* temperature.  Each action yields the set of its possible outcomes       *)
(* [ao, g, stat] (one outcome unless the C is undefined).                  *)
(***************************************************************************)
\* MAX31855K_RxBlocking and MAX31855K_Get_HJ: rx.err is the fault, rx.hj the
\* hot junction count.  temp is *temp before the call.
readTemperature(rx, temp) ==
    IF rx.err # "MAX_OK" THEN [ok |-> FALSE, temp |-> temp]
    ELSE [ok |-> TRUE, temp |-> (rx.hj * FX) \div HJ_DIV]

Outcome(a, g, stat) == [ao |-> a, g |-> g, stat |-> stat]

\* Reflow_reset_INIT returning HANDLED_STATUS instead of INIT_STATUS.
Reflow_reset_INIT_handled(a, g, rx) ==
    {Outcome([a EXCEPT !.state = RESET_STATE], g, HANDLED_STATUS)}

Reflow_reset_INIT(a, g, rx) ==
    {Outcome([a EXCEPT !.state = RESET_STATE], g, INIT_STATUS)}

\* Reflow_reset_ENTRY without the PID_Reset of line 156.
Reflow_reset_ENTRY_pid_kept(a, g, rx) ==
    {Outcome([a EXCEPT !.pwm_compare = 0,
                       !.pwm_started = FALSE,
                       !.pid_timer = FALSE,
                       !.reflow_time_evt = TimeEvent_disarm(a.reflow_time_evt)],
             g, HANDLED_STATUS)}

Reflow_reset_ENTRY(a, g, rx) ==
    {Outcome([a EXCEPT !.pwm_compare = 0,
                       !.pwm_started = FALSE,
                       !.pid_params = PID_Reset(a.pid_params),
                       !.pid_timer = FALSE,
                       !.reflow_time_evt = TimeEvent_disarm(a.reflow_time_evt)],
             g, HANDLED_STATUS)}

\* Reflow_preheat_ENTRY without the osTimerStart of line 171.
Reflow_preheat_ENTRY_timer_unstarted(a, g, rx) ==
    {Outcome([a EXCEPT !.pwm_started = TRUE,
                       !.setpoint = FloatOfU32(Phase(PREHEAT_STATE - 1).reach_temp)],
             g, HANDLED_STATUS)}

Reflow_preheat_ENTRY(a, g, rx) ==
    {Outcome([a EXCEPT !.pwm_started = TRUE,
                       !.setpoint = FloatOfU32(Phase(PREHEAT_STATE - 1).reach_temp),
                       !.pid_timer = TRUE],
             g, HANDLED_STATUS)}

Reflow_soak_ENTRY(a, g, rx) ==
    LET arm == TimeEvent_arm(a.reflow_time_evt, g,
                             Phase(SOAK_STATE - 1).reach_time, 0)
    IN {Outcome([a EXCEPT !.step_size =
                              (FloatOfU32(Phase(SOAK_STATE - 1).reach_temp
                                          - Phase(PREHEAT_STATE - 1).reach_temp)
                               * TS_NUM)
                              \div (Phase(SOAK_STATE - 1).reach_time * TS_DEN),
                          !.reflow_time_evt = arm.te],
                arm.g, HANDLED_STATUS)}

Reflow_rampup_ENTRY(a, g, rx) ==
    {Outcome([a EXCEPT !.setpoint = FloatOfU32(Phase(RAMPUP_STATE - 1).reach_temp)],
             g, HANDLED_STATUS)}

Reflow_peak_ENTRY(a, g, rx) ==
    LET arm == TimeEvent_arm(a.reflow_time_evt, g,
                             Phase(PEAK_STATE - 1).reach_time, 0)
    IN {Outcome([a EXCEPT !.step_size = 0, !.reflow_time_evt = arm.te],
                arm.g, HANDLED_STATUS)}

Reflow_cooldown_ENTRY(a, g, rx) ==
    {Outcome([a EXCEPT !.setpoint = FloatOfU32(Phase(COOLDOWN_STATE - 1).reach_temp)],
             g, HANDLED_STATUS)}

Reflow_reset_START(a, g, rx) ==
    LET rd == readTemperature(rx, 0)
    IN IF rd.ok # TRUE
       THEN {Outcome(a, g, HANDLED_STATUS)}
       ELSE {IF U32Gt(u, Phase(COOLDOWN_STATE - 1).reach_temp)
             THEN Outcome(a, g, HANDLED_STATUS)
             ELSE Outcome([a EXCEPT !.state = PREHEAT_STATE], g, TRAN_STATUS)
             : u \in U32OfFloat(rd.temp)}

Reflow_preheat_REACHTEMP(a, g, rx) ==
    {Outcome([a EXCEPT !.state = SOAK_STATE], g, TRAN_STATUS)}

\* Reflow_soak_REACHTIME going straight to PEAK_STATE.
Reflow_soak_REACHTIME_skip(a, g, rx) ==
    {Outcome([a EXCEPT !.state = PEAK_STATE], g, TRAN_STATUS)}

Reflow_soak_REACHTIME(a, g, rx) ==
    {Outcome([a EXCEPT !.state = RAMPUP_STATE], g, TRAN_STATUS)}

Reflow_rampup_REACHTEMP(a, g, rx) ==
    {Outcome([a EXCEPT !.state = PEAK_STATE], g, TRAN_STATUS)}

Reflow_peak_REACHTIME(a, g, rx) ==
    {Outcome([a EXCEPT !.state = COOLDOWN_STATE], g, TRAN_STATUS)}

\* Reflow_cooldown_REACHTEMP advancing to the next enumerator instead of
\* returning to RESET_STATE.
Reflow_cooldown_REACHTEMP_next(a, g, rx) ==
    {Outcome([a EXCEPT !.state = a.state + 1], g, TRAN_STATUS)}

Reflow_cooldown_REACHTEMP(a, g, rx) ==
    {Outcome([a EXCEPT !.state = RESET_STATE], g, TRAN_STATUS)}

\* Reflow_STOP without the osTimerStop of line 265.
Reflow_STOP_timer_left(a, g, rx) ==
    {Outcome([a EXCEPT !.state = RESET_STATE], g, TRAN_STATUS)}

Reflow_STOP(a, g, rx) ==
    {Outcome([a EXCEPT !.pid_timer = FALSE, !.state = RESET_STATE], g, TRAN_STATUS)}

\* Reflow_ignore answering like an initial transition, so that the entry
\* action of the current state runs again.
Reflow_ignore_reenter(a, g, rx) == {Outcome(a, g, INIT_STATUS)}

Reflow_ignore(a, g, rx) == {Outcome(a, g, IGNORE_STATUS)}

\* The state machine table: row = state + 1, column = signal + 1.
Reflow_state_table ==
    << <<"reset_INIT", "reset_ENTRY", "reset_START", "ignore", "ignore", "ignore">>,
       <<"ignore", "preheat_ENTRY", "ignore", "ignore", "preheat_REACHTEMP", "STOP">>,
       <<"ignore", "soak_ENTRY", "ignore", "soak_REACHTIME", "ignore", "STOP">>,
       <<"ignore", "rampup_ENTRY", "ignore", "ignore", "rampup_REACHTEMP", "STOP">>,
       <<"ignore", "peak_ENTRY", "ignore", "peak_REACHTIME", "ignore", "STOP">>,
       <<"ignore", "cooldown_ENTRY", "ignore", "ignore", "cooldown_REACHTEMP", "STOP">> >>

\* Whether table[state][sig] is inside the table.
InTable(state, sig) ==
    /\ state \in 0 .. (NUM_REFLOW_STATES - 1)
    /\ sig \in 0 .. (NUM_REFLOW_SIGS - 1)
    /\ state + 1 \in DOMAIN Reflow_state_table
    /\ sig + 1 \in DOMAIN Reflow_state_table[state + 1]

\* Reflow_state_table[state][sig](ao, evt)
CallAction(state, sig, a, g, rx) ==
    LET f == Reflow_state_table[state + 1][sig + 1]
    IN CASE f = "reset_INIT" -> Reflow_reset_INIT(a, g, rx)
         [] f = "reset_ENTRY" -> Reflow_reset_ENTRY(a, g, rx)
         [] f = "reset_START" -> Reflow_reset_START(a, g, rx)
         [] f = "preheat_ENTRY" -> Reflow_preheat_ENTRY(a, g, rx)
         [] f = "soak_ENTRY" -> Reflow_soak_ENTRY(a, g, rx)
         [] f = "rampup_ENTRY" -> Reflow_rampup_ENTRY(a, g, rx)
         [] f = "peak_ENTRY" -> Reflow_peak_ENTRY(a, g, rx)
         [] f = "cooldown_ENTRY" -> Reflow_cooldown_ENTRY(a, g, rx)
         [] f = "preheat_REACHTEMP" -> Reflow_preheat_REACHTEMP(a, g, rx)
         [] f = "soak_REACHTIME" -> Reflow_soak_REACHTIME(a, g, rx)
         [] f = "rampup_REACHTEMP" -> Reflow_rampup_REACHTEMP(a, g, rx)
         [] f = "peak_REACHTIME" -> Reflow_peak_REACHTIME(a, g, rx)
         [] f = "cooldown_REACHTEMP" -> Reflow_cooldown_REACHTEMP(a, g, rx)
         [] f = "STOP" -> Reflow_STOP(a, g, rx)
         [] f = "ignore" -> Reflow_ignore(a, g, rx)

\* reflow_evt_handler lines 460-461: the table action for signal sig.
handler_action(a, g, sig, rx) == CallAction(a.state, sig, a, g, rx)

\* reflow_evt_handler without the else-if branch of lines 472-476.
handler_takes_entry_tran(st) == st = TRAN_STATUS

\* reflow_evt_handler lines 467 and 472: whether an entry action follows.
handler_takes_entry(st) == st = TRAN_STATUS \/ st = INIT_STATUS

\* reflow_evt_handler lines 470 and 475: the entry action of the state the
\* table action left; what it returns is dropped.
handler_entry(a, g) == CallAction(a.state, ENTRY_SIG, a, g, [err |-> "MAX_OK", hj |-> 0])

\* reflow_evt_handler run to completion: the set of possible
\* [ao, g, stat, entries].
reflow_evt_handler(a, g, sig, rx) ==
    UNION {IF handler_takes_entry(r.stat)
           THEN {[ao |-> e.ao, g |-> e.g, stat |-> r.stat, entries |-> 1]
                 : e \in handler_entry(r.ao, r.g)}
           ELSE {[ao |-> r.ao, g |-> r.g, stat |-> r.stat, entries |-> 0]}
           : r \in handler_action(a, g, sig, rx)}

\* An event loop that takes the next event while an entry action is pending.
loop_may_get_early(pc, q) == pc \in {"wait", "entry"} /\ q # << >>

\* Active_event_loop lines 143-147: the loop takes the next event only when
\* the handler has returned and the thread is back at the queue.
loop_may_get(pc, q) == pc = "wait" /\ q # << >>

\* An event loop that takes the most recent event instead of the oldest.
loop_get_newest(q) == [evt |-> q[Len(q)], q |-> SubSeq(q, 1, Len(q) - 1)]

\* Active_event_loop line 147: osMessageQueueGet, [evt, q].
loop_get(q) == [evt |-> Head(q), q |-> Tail(q)]

\* reflow_init: reflow_ao after construction (static zero initialisation,
\* PID_Init, TimeEvent_ctor, osTimerNew).
reflow_init ==
    [state |-> RESET_STATE,
     pid_params |-> PID_Init([Kp |-> KP_INIT, Ki |-> KI_INIT, Kd |-> KD_INIT,
                              tau |-> TAU_INIT,
                              out_max |-> FloatOfU32(OUT_MAX_INIT),
                              out_min |-> FloatOfU32(OUT_MIN_INIT)]),
     step_size |-> 0,
     setpoint |-> 0,
     pwm_started |-> FALSE,
     pwm_compare |-> 0,
     pid_timer |-> FALSE,
     reflow_time_evt |-> TimeEvent_ctor(REACH_TIME_SIG)]


(***************************************************************************)
(* reflow.c: reflow_pid_iteration, the periodic control tick, in the two   *)
(* pieces between which the reflow thread may run: the reading and the     *)
(* decisions taken on it, then the feedback computation and its output.    *)
(***************************************************************************)
\* The leeway test of line 345 on the converted reading u (32 bit unsigned).
WithinLeeway(reach_temp, u) ==
    /\ U32Gt(reach_temp, u - 2)
    /\ U32Lt(reach_temp, u + 2)

\* Lines 330-336: read the temperature, post STOP_REFLOW if the read failed.
\* Yields [status, temp_reading, q].
pid_iteration_read(q, rx) ==
    LET rd == readTemperature(rx, 0)
    IN [status |-> rd.ok, temp_reading |-> rd.temp,
        q |-> IF rd.ok = FALSE
              THEN Active_post(q, REFLOW_MSG_COUNT, STOP_REFLOW_SIG).q
              ELSE q]

\* Lines 341-357 with the transition taken by the tick itself when the
\* target is reached, instead of posting REACH_TEMP_SIG.
pid_iteration_phase_direct(a, q, temp_reading) ==
    IF a.state \in RunningStates /\ Phase(a.state - 1).phase_type = REACHTEMP
    THEN {IF WithinLeeway(Phase(a.state - 1).reach_temp, u)
          THEN [ao |-> [a EXCEPT !.state = (a.state + 1) % NUM_REFLOW_STATES], q |-> q]
          ELSE [ao |-> a, q |-> q] : u \in U32OfFloat(temp_reading)}
    ELSE {[ao |-> [a EXCEPT !.setpoint = a.setpoint + a.step_size], q |-> q]}

\* Lines 341-357: yields the set of possible [ao, q].  In RESET the index
\* state - 1 is outside reflow_phases and what is read there is undefined:
\* either branch may be taken, with or without a post.
pid_iteration_phase(a, q, temp_reading) ==
    LET posted == [ao |-> a, q |-> Active_post(q, REFLOW_MSG_COUNT, REACH_TEMP_SIG).q]
        quiet == [ao |-> a, q |-> q]
        stepped == [ao |-> [a EXCEPT !.setpoint = a.setpoint + a.step_size], q |-> q]
    IN IF a.state - 1 \in 0 .. (NUM_REFLOW_STATES - 2)
       THEN IF Phase(a.state - 1).phase_type = REACHTEMP
            THEN {IF WithinLeeway(Phase(a.state - 1).reach_temp, u)
                  THEN posted ELSE quiet : u \in U32OfFloat(temp_reading)}
            ELSE {stepped}
       ELSE {posted, quiet, stepped}

\* Lines 360-363 writing the sum of the three terms instead of the value
\* PID_Calculate returns.
pid_iteration_output_raw(a, temp_reading) ==
    LET pid == PID_Calculate(a.pid_params, a.setpoint, temp_reading)
        pwm_value == pid.proportional + pid.integral + pid.derivative
    IN [a EXCEPT !.pid_params = pid, !.pwm_compare = U16OfFloat(pwm_value)]

\* Lines 360-363: the PID iteration on the current setpoint, and its output
\* written to the PWM compare register.
pid_iteration_output(a, temp_reading) ==
    LET pid == PID_Calculate(a.pid_params, a.setpoint, temp_reading)
        pwm_value == pid.out
    IN [a EXCEPT !.pid_params = pid, !.pwm_compare = U16OfFloat(pwm_value)]

(***************************************************************************)
(* State.                                                                  *)
(***************************************************************************)
VARIABLES
    ao,            \* reflow_ao (reflow.c)
    g,             \* first_arm and the tick sources started (active.c)
    queue,         \* the reflow active object's event queue (signals)
    hpc,           \* reflow thread: "start", "wait", "action", "entry"
    evt,           \* the signal of the event being dispatched: <<sig>>, or
                   \* << >> while the thread waits on the queue
    stat,          \* reflow_evt_handler: stat of the latest dispatch
    entries,       \* entry actions run in the latest dispatch
    tpc,           \* timer task: "idle" or the position in a callback
    temp_reading,  \* reflow_pid_iteration: local temp_reading
    status,        \* reflow_pid_iteration: local status
    ncmd,          \* commands issued so far
    hist           \* what the properties of a specification need of the past

vars == <<ao, g, queue, hpc, evt, stat, entries, tpc, temp_reading, status,
          ncmd, hist>>

hvars == <<hpc, evt, stat, entries>>
tvars == <<tpc, temp_reading, status>>

(***************************************************************************)
(* Bounds and inputs.                                                      *)
(***************************************************************************)
\* commands the operator issues in one behaviour
MaxCmds == 2
\* counts before expiry over which the time event is followed tick by tick
TickNear == 1
\* control ticks that advance the setpoint ramp of one reach-time phase
MaxRamp == 1

\* hot junction counts (quarter degrees) the thermocouple delivers to a
\* control tick: 35.0, 100.0, 215.0 degrees
TickSamples == {140, 400, 860}
\* and to the start check: 0.25, 34.75, 35.0, 35.25, 35.75, 36.0, 100.0
StartSamples == {1, 139, 140, 141, 143, 144, 400}

Faults == {"MAX_SHORT_VCC", "MAX_SHORT_GND", "MAX_OPEN", "MAX_ZEROS"}

ReadsOf(samples, faults) ==
    {[err |-> "MAX_OK", hj |-> h] : h \in samples}
    \cup {[err |-> f, hj |-> 0] : f \in faults}

TickReads == ReadsOf(TickSamples, {"MAX_OPEN"})
StartReads == ReadsOf(StartSamples, Faults)

NoRead == [err |-> "MAX_OK", hj |-> 0]

\* Under Spec the history is the observation made by the latest step:
\* <<"read_failed">> right after a control tick in a running state found
\* its read failed, empty otherwise.
NoHist == << >>

\* The program after construction, before any thread has run.
Constructed ==
    /\ ao = reflow_init
    /\ g = [first_arm |-> FALSE, ms_timers |-> 0]
    /\ queue = << >>
    /\ hpc = "start"
    /\ evt = << >>
    /\ stat = IGNORE_STATUS
    /\ entries = 0
    /\ tpc = "idle"
    /\ temp_reading = 0
    /\ status = TRUE
    /\ ncmd = 0

Init == Constructed /\ hist = NoHist

(***************************************************************************)
(* active.c: Active_event_loop with reflow.c: reflow_evt_handler.          *)
(***************************************************************************)
\* Line 140: the initial event is handed to the handler.
LoopInit ==
    /\ hpc = "start"
    /\ hpc' = "action"
    /\ evt' = <<INIT_SIG>>
    /\ entries' = 0
    /\ UNCHANGED <<ao, g, queue, stat, tvars, ncmd>>
    /\ hist' = NoHist

\* Lines 147-155: the next event is taken from the queue and handed to the
\* handler.
LoopGet ==
    /\ loop_may_get(hpc, queue)
    /\ evt' = <<loop_get(queue).evt>>
    /\ queue' = loop_get(queue).q
    /\ hpc' = "action"
    /\ entries' = 0
    /\ UNCHANGED <<ao, g, stat, tvars, ncmd>>
    /\ hist' = NoHist

\* Whether the action of this cell reads the thermocouple.
ReadsTemperature(state, sig) ==
    Reflow_state_table[state + 1][sig + 1] = "reset_START"

\* reflow_evt_handler lines 460-461: the table action.  The range assertion
\* of line 460 halts the thread when it fails.
HandlerAction ==
    /\ hpc = "action"
    /\ InTable(ao.state, evt[1])
    /\ \E rx \in (IF ReadsTemperature(ao.state, evt[1]) THEN StartReads ELSE {NoRead}) :
         \E res \in handler_action(ao, g, evt[1], rx) :
            /\ ao' = res.ao
            /\ g' = res.g
            /\ stat' = res.stat
            /\ IF handler_takes_entry(res.stat)
               THEN hpc' = "entry" /\ evt' = evt
               ELSE hpc' = "wait" /\ evt' = << >>
    /\ UNCHANGED <<queue, entries, tvars, ncmd>>
    /\ hist' = NoHist

\* reflow_evt_handler lines 467-476: the entry action of the current state.
HandlerEntry ==
    /\ hpc = "entry"
    /\ InTable(ao.state, ENTRY_SIG)
    /\ \E res \in handler_entry(ao, g) :
          /\ ao' = res.ao
          /\ g' = res.g
    /\ entries' = entries + 1
    /\ hpc' = "wait"
    /\ evt' = << >>
    /\ UNCHANGED <<queue, stat, tvars, ncmd>>
    /\ hist' = NoHist

(***************************************************************************)
(* Timer task: reflow_pid_iteration (period Ts) while pid_timer runs.      *)
(***************************************************************************)
\* The setpoint ramp is followed for MaxRamp ticks from the setpoint the
\* ramp starts at (the target of the phase before a reach-time phase).
RampBase(state) ==
    IF state \in {SOAK_STATE, PEAK_STATE}
    THEN FloatOfU32(Phase(state - 2).reach_temp)
    ELSE FloatOfU32(Phase(RAMPUP_STATE - 1).reach_temp)

RampAllowed ==
    \/ ao.step_size = 0
    \/ ao.setpoint + ao.step_size <= RampBase(ao.state) + MaxRamp * ao.step_size

\* Lines 330-357.
PidSense ==
    /\ tpc = "idle"
    /\ ao.pid_timer
    /\ RampAllowed
    /\ \E rx \in TickReads :
         LET r == pid_iteration_read(queue, rx)
         IN /\ status' = r.status
            /\ temp_reading' = r.temp_reading
            /\ \E p \in pid_iteration_phase(ao, r.q, r.temp_reading) :
                  /\ ao' = p.ao
                  /\ queue' = p.q
            /\ hist' = IF r.status = FALSE /\ ao.state \in RunningStates
                       THEN <<"read_failed">> ELSE NoHist
    /\ tpc' = "pid_output"
    /\ UNCHANGED <<g, hvars, ncmd>>

\* Lines 360-373.
PidOutput ==
    /\ tpc = "pid_output"
    /\ ao' = pid_iteration_output(ao, temp_reading)
    /\ tpc' = "idle"
    /\ temp_reading' = 0
    /\ status' = TRUE
    /\ UNCHANGED <<g, queue, hvars, ncmd>>
    /\ hist' = NoHist

(***************************************************************************)
(* Timer task: TimeEvent_tick (period 1 s) once the tick source runs.      *)
(* time_events holds the one time event of the program.                    *)
(***************************************************************************)
\* Lines 175-178: the countdown is decremented.  Ticks are followed one by
\* one over the last TickNear counts before expiry.
TickDec ==
    /\ tpc = "idle"
    /\ g.first_arm
    /\ ao.reflow_time_evt.timeout > 0
    /\ ao.reflow_time_evt.timeout <= TickNear
    /\ ao' = [ao EXCEPT !.reflow_time_evt.timeout = @ - 1]
    /\ tpc' = IF ao'.reflow_time_evt.timeout = 0 THEN "tick_post" ELSE "idle"
    /\ UNCHANGED <<g, queue, hvars, temp_reading, status, ncmd>>
    /\ hist' = NoHist

\* Lines 175-178, for a run of consecutive ticks far from expiry: each of
\* them only decrements the countdown, and the run is taken in one step
\* that leaves TickNear counts.
TickRun ==
    /\ tpc = "idle"
    /\ g.first_arm
    /\ ao.reflow_time_evt.timeout > TickNear
    /\ ao' = [ao EXCEPT !.reflow_time_evt.timeout = TickNear]
    /\ UNCHANGED <<g, queue, hvars, tvars, ncmd>>
    /\ hist' = NoHist

\* Line 180: the event is posted to the owner.
TickPost ==
    /\ tpc = "tick_post"
    /\ queue' = Active_post(queue, REFLOW_MSG_COUNT, ao.reflow_time_evt.sig).q
    /\ tpc' = "tick_reload"
    /\ UNCHANGED <<ao, g, hvars, temp_reading, status, ncmd>>
    /\ hist' = NoHist

\* Line 181: the countdown is reloaded.
TickReload ==
    /\ tpc = "tick_reload"
    /\ ao' = [ao EXCEPT !.reflow_time_evt.timeout = ao.reflow_time_evt.reload]
    /\ tpc' = "idle"
    /\ UNCHANGED <<g, queue, hvars, temp_reading, status, ncmd>>
    /\ hist' = NoHist

(***************************************************************************)
(* Command thread: the reflow command callbacks.                           *)
(***************************************************************************)
reflow_start_cmd(q) == Active_post(q, REFLOW_MSG_COUNT, START_REFLOW_SIG).q

reflow_stop_cmd(q) == Active_post(q, REFLOW_MSG_COUNT, STOP_REFLOW_SIG).q

\* What reflow_start_cmd and reflow_stop_cmd tell the operator (lines
\* 399-400 and 406-407): the line logged and the value returned.  Neither
\* looks at the queue or at what Active_post returned.
reflow_start_report(q) == [log |-> "Posted START signal", ret |-> 0]

reflow_stop_report(q) == [log |-> "Posted STOP signal", ret |-> 0]

\* reflow_status_cmd: displays the parameters, the state and a temperature
\* reading; reflow_ao is only read.
reflow_status_cmd(a) == a

\* Command arguments are sequences of characters.
tolower(c) ==
    CASE c = "K" -> "k" [] c = "P" -> "p" [] c = "I" -> "i" [] c = "D" -> "d"
      [] c = "T" -> "t" [] c = "A" -> "a" [] c = "U" -> "u" [] c = "X" -> "x"
      [] OTHER -> c

\* strcasecmp(s1, s2) == 0
strcasecmp_eq(s1, s2) ==
    /\ Len(s1) = Len(s2)
    /\ \A i \in 1 .. Len(s1) : tolower(s1[i]) = tolower(s2[i])

\* The value of a character as a digit (36 when it is none).
DigitOf(c) ==
    CASE c = "0" -> 0 [] c = "1" -> 1 [] c = "2" -> 2 [] c = "3" -> 3
      [] c = "4" -> 4 [] c = "5" -> 5 [] c = "6" -> 6 [] c = "7" -> 7
      [] c = "8" -> 8 [] c = "9" -> 9 [] tolower(c) = "a" -> 10
      [] tolower(c) = "d" -> 13 [] OTHER -> 36

RECURSIVE strtoul_digits(_, _, _)
strtoul_digits(cs, base, acc) ==
    IF cs = << >> \/ DigitOf(Head(cs)) >= base THEN acc
    ELSE strtoul_digits(Tail(cs), base, acc * base + DigitOf(Head(cs)))

\* strtoul(str, end_ptr, 0): the longest prefix that is a number in the base
\* its own prefix announces; 0 when there is none.
strtoul(cs) ==
    IF Len(cs) >= 3 /\ cs[1] = "0" /\ tolower(cs[2]) = "x" /\ DigitOf(cs[3]) < 16
    THEN strtoul_digits(SubSeq(cs, 3, Len(cs)), 16, 0)
    ELSE IF Len(cs) >= 1 /\ cs[1] = "0"
    THEN strtoul_digits(Tail(cs), 8, 0)
    ELSE strtoul_digits(cs, 10, 0)

\* reflow_set_cmd, the loop of lines 419-452 from pair i on: [ao, ret], ret
\* being 0 or -1.
RECURSIVE reflow_set_pairs(_, _, _)
reflow_set_pairs(a, argv, i) ==
    IF i >= Len(argv) THEN [ao |-> a, ret |-> 0]
    ELSE LET param == argv[i + 1]
             val == strtoul(argv[i + 2])
         IN IF strcasecmp_eq(param, <<"K", "p">>)
            THEN reflow_set_pairs([a EXCEPT !.pid_params.Kp = val], argv, i + 2)
            ELSE IF strcasecmp_eq(param, <<"K", "d">>)
            THEN reflow_set_pairs([a EXCEPT !.pid_params.Kd = val], argv, i + 2)
            ELSE IF strcasecmp_eq(param, <<"K", "i">>)
            THEN reflow_set_pairs([a EXCEPT !.pid_params.Ki = val], argv, i + 2)
            ELSE IF strcasecmp_eq(param, <<"T", "a", "u">>)
            THEN reflow_set_pairs([a EXCEPT !.pid_params.tau = val], argv, i + 2)
            ELSE [ao |-> a, ret |-> -1]

\* reflow_set_cmd: [ao, ret].
reflow_set_cmd(a, argv) ==
    IF Len(argv) % 2 # 0 \/ Len(argv) = 0 THEN [ao |-> a, ret |-> -1]
    ELSE reflow_set_pairs(a, argv, 0)

CmdStart ==
    /\ ncmd < MaxCmds
    /\ ncmd' = ncmd + 1
    /\ queue' = reflow_start_cmd(queue)
    /\ UNCHANGED <<ao, g, hvars, tvars>>
    /\ hist' = NoHist

CmdStop ==
    /\ ncmd < MaxCmds
    /\ ncmd' = ncmd + 1
    /\ queue' = reflow_stop_cmd(queue)
    /\ UNCHANGED <<ao, g, hvars, tvars>>
    /\ hist' = NoHist

Next ==
    \/ LoopInit
    \/ LoopGet
    \/ HandlerAction
    \/ HandlerEntry
    \/ PidSense
    \/ PidOutput
    \/ TickDec
    \/ TickRun
    \/ TickPost
    \/ TickReload
    \/ CmdStart
    \/ CmdStop

Spec == Init /\ [][Next]_vars

\* Scheduling: the reflow thread runs whenever it stays ready, the timer
\* service task finishes the callback it started, and the two periodic
\* timers fire again and again while they are running.
HandlerThread == LoopInit \/ LoopGet \/ HandlerAction \/ HandlerEntry

TimerTask == PidSense \/ PidOutput \/ TickDec \/ TickRun \/ TickPost \/ TickReload

TimeTick == TickDec \/ TickRun

FairSpec ==
    /\ Init
    /\ [][Next]_vars
    /\ WF_vars(HandlerThread)
    /\ WF_vars(TimerTask)
    /\ SF_vars(TimeTick)
    /\ SF_vars(PidSense)


(***************************************************************************)
(* AOSpec: one active object seen from its queue.  Posters of any thread   *)
(* post events (a signal and the serial number of the attempt), the event  *)
(* loop dispatches them, and the handler is a step that returns.  hist     *)
(* records the events whose post returned MOD_OK, the events dispatched,   *)
(* and the argument and return value of the latest post.                   *)
(***************************************************************************)
\* post attempts in one behaviour
MaxPosts == 7

Posters == {"cmd", "pid", "tick"}

\* reflow_start_cmd and reflow_stop_cmd, reflow_pid_iteration, TimeEvent_tick
PosterSignals(p) ==
    CASE p = "cmd" -> {START_REFLOW_SIG, STOP_REFLOW_SIG}
      [] p = "pid" -> {REACH_TEMP_SIG, STOP_REFLOW_SIG}
      [] p = "tick" -> {REACH_TIME_SIG}

AOInit ==
    /\ Constructed
    /\ hist = [posted |-> << >>, dispatched |-> << >>, attempts |-> 0,
               arg |-> << >>, ret |-> MOD_OK]

\* Active_event_loop line 140: the initial event, which is not posted.
AOStart ==
    /\ hpc = "start"
    /\ hpc' = "action"
    /\ evt' = <<<<INIT_SIG, 0>>>>
    /\ UNCHANGED <<ao, g, queue, stat, entries, tvars, ncmd, hist>>

\* Active_post called by poster p.
AOPost(p, sig) ==
    /\ hist.attempts < MaxPosts
    /\ LET e == <<sig, hist.attempts + 1>>
           r == Active_post(queue, REFLOW_MSG_COUNT, e)
       IN /\ queue' = r.q
          /\ hist' = [hist EXCEPT !.attempts = @ + 1,
                                  !.arg = e,
                                  !.ret = r.err,
                                  !.posted = IF r.err = MOD_OK
                                             THEN Append(@, e) ELSE @]
    /\ UNCHANGED <<ao, g, hvars, tvars, ncmd>>

AOPostAny == \E p \in Posters : \E sig \in PosterSignals(p) : AOPost(p, sig)

\* Active_event_loop lines 147-155: the next event is handed to the handler.
AOGet ==
    /\ loop_may_get(hpc, queue)
    /\ evt' = <<loop_get(queue).evt>>
    /\ queue' = loop_get(queue).q
    /\ hpc' = "action"
    /\ hist' = [hist EXCEPT !.dispatched = Append(@, loop_get(queue).evt)]
    /\ UNCHANGED <<ao, g, stat, entries, tvars, ncmd>>

\* The handler returns.
AOReturn ==
    /\ hpc = "action"
    /\ hpc' = "wait"
    /\ evt' = << >>
    /\ UNCHANGED <<ao, g, queue, stat, entries, tvars, ncmd, hist>>

AONext == AOStart \/ AOPostAny \/ AOGet \/ AOReturn

AOSpec == AOInit /\ [][AONext]_vars

\* C8: the events whose post returned MOD_OK are, in the order of their
\* posts, the events already dispatched followed by the events still
\* queued: none is dropped, none is dispatched twice, none overtakes.
C8_FifoExactlyOnce == hist.posted = hist.dispatched \o queue

\* Four events have been dispatched, more are queued, and a post was
\* refused on the way.
C8_Witness ==
    /\ Len(hist.dispatched) >= 4
    /\ Len(queue) >= 2
    /\ hist.attempts > Len(hist.posted)

\* C10: a post always completes: on a queue that holds its full capacity it
\* returns MOD_ERR_TIMEOUT and leaves the queue as it was, otherwise it
\* returns MOD_OK and the queue is the old one with the event at its tail.
C10_PostNeverBlocks ==
    [][hist'.attempts # hist.attempts =>
          IF Len(queue) >= REFLOW_MSG_COUNT
          THEN hist'.ret = MOD_ERR_TIMEOUT /\ queue' = queue
          ELSE hist'.ret = MOD_OK /\ queue' = Append(queue, hist'.arg)]_vars

\* A post on the full queue has just been refused.
C10_Witness ==
    /\ hist.ret = MOD_ERR_TIMEOUT
    /\ Len(queue) = REFLOW_MSG_COUNT
    /\ hist.attempts > REFLOW_MSG_COUNT

(***************************************************************************)
(* RunSpec: two complete runs of the profile, one after the other, with    *)
(* the handler and the control tick each run to completion.  The first run *)
(* chooses its inputs (the reading of the start check, and for each phase  *)
(* the readings of the control ticks that post nothing), the second run    *)
(* is given the same inputs.  hist records the inputs and, for each run,   *)
(* the controller after every step and the number of entries into each     *)
(* state.                                                                  *)
(***************************************************************************)
\* control ticks followed in one phase
MaxPhaseTicks == 1

Script == <<START_REFLOW_SIG, REACH_TEMP_SIG, REACH_TIME_SIG,
            REACH_TEMP_SIG, REACH_TIME_SIG, REACH_TEMP_SIG>>

\* a cold oven: 0.25, 34.75 and 35.0 degrees
ColdReads == ReadsOf({1, 139, 140}, {})

\* reflow_pid_iteration from its first line to its last: the set of [ao, q].
reflow_pid_iteration(a, q, rx) ==
    LET r == pid_iteration_read(q, rx)
    IN {[ao |-> pid_iteration_output(p.ao, r.temp_reading), q |-> p.q]
        : p \in pid_iteration_phase(a, r.q, r.temp_reading)}

\* The readings on which a control tick posts no event.
QuietReads(a, q) ==
    {rx \in ReadsOf(TickSamples, {}) :
        \A p \in reflow_pid_iteration(a, q, rx) : p.q = q}

NoVisits == [s \in 0 .. (NUM_REFLOW_STATES - 1) |-> 0]

RunInit ==
    /\ Constructed
    /\ hist = [run |-> 1, k |-> 0, ticks |-> 0, inputs |-> << >>, pos |-> 0,
               log |-> <<<< >>, << >>>>, visits |-> NoVisits]

\* What a run has left to hand in: anything in the first run, the recorded
\* input in the second.
NextInput(kind, rx) ==
    \/ hist.run = 1
    \/ /\ hist.pos < Len(hist.inputs)
       /\ hist.inputs[hist.pos + 1] = [kind |-> kind, rx |-> rx]

Recorded(kind, rx, a) ==
    [hist EXCEPT !.inputs = IF hist.run = 1
                            THEN Append(@, [kind |-> kind, rx |-> rx]) ELSE @,
                 !.pos = @ + 1,
                 !.log[hist.run] = Append(@, a)]

\* The initial event is dispatched.
RunBoot ==
    /\ hpc = "start"
    /\ \E res \in reflow_evt_handler(ao, g, INIT_SIG, NoRead) :
          /\ ao' = res.ao
          /\ g' = res.g
          /\ stat' = res.stat
          /\ entries' = res.entries
    /\ hpc' = "wait"
    /\ UNCHANGED <<queue, evt, tvars, ncmd, hist>>

\* The next event of the script is dispatched.
RunEvent ==
    /\ hpc = "wait"
    /\ hist.k < Len(Script)
    /\ LET sig == Script[hist.k + 1]
       IN \E rx \in (IF ReadsTemperature(ao.state, sig) THEN ColdReads ELSE {NoRead}) :
            /\ NextInput("event", rx)
            /\ \E res \in reflow_evt_handler(ao, g, sig, rx) :
                  /\ ao' = res.ao
                  /\ g' = res.g
                  /\ stat' = res.stat
                  /\ entries' = res.entries
                  /\ hist' = [Recorded("event", rx, res.ao) EXCEPT
                                 !.k = @ + 1,
                                 !.ticks = 0,
                                 !.visits[res.ao.state] =
                                     IF res.ao.state # ao.state THEN @ + 1 ELSE @]
    /\ UNCHANGED <<queue, hpc, evt, tvars, ncmd>>

\* A control tick that posts nothing.
RunTick ==
    /\ hpc = "wait"
    /\ ao.pid_timer
    /\ hist.ticks < MaxPhaseTicks
    /\ \E rx \in QuietReads(ao, queue) :
          /\ NextInput("tick", rx)
          /\ \E p \in reflow_pid_iteration(ao, queue, rx) :
                /\ ao' = p.ao
                /\ queue' = p.q
                /\ hist' = [Recorded("tick", rx, p.ao) EXCEPT !.ticks = @ + 1]
    /\ UNCHANGED <<g, hvars, tvars, ncmd>>

\* The first run is over: the second one starts.
RunAgain ==
    /\ hist.run = 1
    /\ hist.k = Len(Script)
    /\ hist' = [hist EXCEPT !.run = 2, !.k = 0, !.ticks = 0, !.pos = 0,
                            !.visits = NoVisits]
    /\ UNCHANGED <<ao, g, queue, hvars, tvars, ncmd>>

RunNext == RunBoot \/ RunEvent \/ RunTick \/ RunAgain

RunSpec == RunInit /\ [][RunNext]_vars

\* The states a run has gone through after its first n events.
Traversal(n) == [i \in 1 .. n |-> i % NUM_REFLOW_STATES]

\* The states after the events of a run, in order.
StatesOfRun(r) ==
    LET ev == {i \in 1 .. hist.pos : hist.inputs[i].kind = "event"}
    IN [n \in 1 .. Cardinality(ev) |->
          hist.log[r][CHOOSE i \in ev :
                         Cardinality({j \in ev : j <= i}) = n].state]

\* C5: from RESET with a cold oven the six events of the script take the
\* state through PREHEAT, SOAK, RAMPUP, PEAK, COOLDOWN and back to RESET,
\* each state entered exactly once in the run, and after every step of the
\* second run the controller (state, setpoint, step size, PID state, PWM,
\* control timer, time event) is what it was after that step of the first.
C5_TraversalRepeats ==
    /\ StatesOfRun(hist.run) = Traversal(hist.k)
    /\ \A st \in 0 .. (NUM_REFLOW_STATES - 1) :
          hist.visits[st] = (IF st \in {Traversal(hist.k)[i] : i \in 1 .. hist.k}
                            THEN 1 ELSE 0)
    /\ hist.run = 2 =>
          \A i \in 1 .. hist.pos : hist.log[2][i] = hist.log[1][i]

\* The second run is complete, with a control tick in each of its phases.
C5_Witness ==
    /\ hist.run = 2
    /\ hist.k = Len(Script)
    /\ hist.pos = Len(hist.inputs)
    /\ hist.pos = Len(Script) + 5
    /\ ao.state = RESET_STATE

(***************************************************************************)
(* Properties of the reflow state machine under Spec.                      *)
(***************************************************************************)
HandlerWaiting == hpc = "wait"
HandlerInProgress == hpc \in {"action", "entry"}

PidMemoryZero(pid) ==
    /\ pid.integral = 0
    /\ pid.derivative = 0
    /\ pid.prev_error = 0
    /\ pid.prev_measurement = 0
    /\ pid.out = 0

\* What Reflow_reset_ENTRY establishes.
ResetOutputsOff(a) ==
    /\ a.pwm_started = FALSE
    /\ a.pwm_compare = 0
    /\ PidMemoryZero(a.pid_params)
    /\ a.pid_timer = FALSE
    /\ a.reflow_time_evt.timeout = 0

\* C1: START_REFLOW dispatched in RESET moves to PREHEAT and returns TRAN
\* exactly when the thermocouple read succeeds and the reading is at most
\* the 35 degree cooldown target; for every other read (a fault, or any
\* reading above 35 degrees, those between 35 and 36 included) the state
\* machine is left as it was and the action returns HANDLED.
C1_StartOnlyWhenCool ==
    (hpc = "action" /\ evt = <<START_REFLOW_SIG>> /\ ao.state = RESET_STATE) =>
        \A rx \in StartReads :
            \A res \in handler_action(ao, g, START_REFLOW_SIG, rx) :
                IF /\ rx.err = "MAX_OK"
                   /\ rx.hj <= Phase(COOLDOWN_STATE - 1).reach_temp * HJ_DIV
                THEN res.stat = TRAN_STATUS /\ res.ao.state = PREHEAT_STATE
                ELSE res.stat = HANDLED_STATUS /\ res.ao = ao

\* A control tick has just found that its temperature read failed while the
\* state machine is in a running state.
FailedReadObserved ==
    /\ hist = <<"read_failed">>
    /\ tpc = "pid_output"
    /\ status = FALSE

HeaterOffInReset == ao.state = RESET_STATE /\ ao.pwm_started = FALSE

\* C2: under FairSpec, whenever a control tick in a running state has seen a
\* failed temperature read, the controller later is in RESET with the PWM
\* output stopped, whatever the event queue held at the failure.
C2_FailSafeShutdown == FailedReadObserved ~> HeaterOffInReset

\* C3: the table action for STOP_REFLOW in a running state stops the
\* control timer, sets the state to RESET, changes nothing else and returns
\* TRAN, whichever running state it is taken in, and the entry action that
\* follows is that of RESET; in RESET the signal is ignored.
C3_StopReturnsToReset ==
    [][/\ (hpc = "action" /\ evt = <<STOP_REFLOW_SIG>> /\ hpc' # "action") =>
            IF ao.state \in RunningStates
            THEN /\ ao' = [ao EXCEPT !.pid_timer = FALSE, !.state = RESET_STATE]
                 /\ stat' = TRAN_STATUS
                 /\ hpc' = "entry"
            ELSE /\ ao' = ao
                 /\ stat' = IGNORE_STATUS
                 /\ hpc' = "wait"
       /\ (hpc = "entry" /\ evt = <<STOP_REFLOW_SIG>> /\ hpc' # "entry") =>
            /\ ao'.state = RESET_STATE
            /\ ResetOutputsOff(ao')
            /\ entries' = 1
            /\ hpc' = "wait"]_vars

\* STOP_REFLOW was taken in SOAK or PEAK (the time event is still armed),
\* and the RESET entry action is about to run.
C3_Witness ==
    /\ hpc = "entry"
    /\ evt = <<STOP_REFLOW_SIG>>
    /\ stat = TRAN_STATUS
    /\ ao.state = RESET_STATE
    /\ ao.pid_timer = FALSE
    /\ ao.reflow_time_evt.timeout > 0

\* C4: whenever the state is RESET and the handler waits for an event, the
\* PWM output is stopped with compare value 0, the PID memory is all zero,
\* the control timer is stopped and the time event is disarmed.
C4_ResetIsQuiescent ==
    (ao.state = RESET_STATE /\ HandlerWaiting) => ResetOutputsOff(ao)

\* C6: a dispatch whose table action returned TRAN or INIT runs exactly one
\* entry action before the handler returns, a dispatch that returned
\* HANDLED or IGNORE runs none, and an entry action is never followed by a
\* second one.
C6_OneEntryPerTransition ==
    /\ HandlerWaiting =>
          entries = (IF stat \in {TRAN_STATUS, INIT_STATUS} THEN 1 ELSE 0)
    /\ hpc = "entry" => (stat \in {TRAN_STATUS, INIT_STATUS} /\ entries = 0)
    /\ hpc = "action" => entries = 0

\* The handler has returned from the dispatch that moved PREHEAT to SOAK.
C6_Witness ==
    /\ HandlerWaiting
    /\ stat = TRAN_STATUS
    /\ entries = 1
    /\ ao.state = SOAK_STATE
    /\ ao.reflow_time_evt.timeout = Phase(SOAK_STATE - 1).reach_time

\* C7: the state is always one of the NUM_REFLOW_STATES states, every signal
\* queued or dispatched is below NUM_REFLOW_SIGS, and the table cell of every
\* dispatch exists: the assertion of the handler never fails.
C7_TableIndexInRange ==
    /\ ao.state \in 0 .. (NUM_REFLOW_STATES - 1)
    /\ \A i \in DOMAIN queue : queue[i] \in 0 .. (NUM_REFLOW_SIGS - 1)
    /\ HandlerInProgress =>
          /\ Len(evt) = 1
          /\ InTable(ao.state, evt[1])
          /\ InTable(ao.state, ENTRY_SIG)

\* The last cell of the table is being dispatched.
C7_Witness ==
    /\ hpc = "action"
    /\ ao.state = NUM_REFLOW_STATES - 1
    /\ evt = <<NUM_REFLOW_SIGS - 1>>

\* C9: a handler invocation starts only when none is in progress, and an
\* event leaves the queue only when the handler has returned from the
\* previous one; it is the head of the queue and it is the one dispatched.
C9_RunToCompletion ==
    [][/\ (hpc' = "action" /\ hpc # "action") => ~HandlerInProgress
       /\ Len(queue') < Len(queue) =>
            /\ ~HandlerInProgress
            /\ hpc' = "action"
            /\ queue' = Tail(queue)
            /\ evt' = <<Head(queue)>>]_vars

\* A dispatch is in progress while three more events are queued.
C9_Witness ==
    /\ HandlerInProgress
    /\ Len(queue) >= 3

\* C11: the first event the handler receives is INIT_SIG, taken from no
\* queue and before any posted event is dispatched, whatever was posted
\* before the thread first ran; INIT_SIG is never dispatched again; and its
\* dispatch returns INIT, leaves the state RESET and runs the RESET entry
\* action once.
C11_InitFirstAndOnce ==
    [][/\ hpc = "start" =>
            \/ hpc' = "start" /\ Len(queue') >= Len(queue)
            \/ hpc' = "action" /\ evt' = <<INIT_SIG>> /\ queue' = queue
       /\ (evt' = <<INIT_SIG>> /\ evt # <<INIT_SIG>>) => hpc = "start"
       /\ (evt = <<INIT_SIG>> /\ hpc = "action" /\ hpc' # "action") =>
            /\ hpc' = "entry"
            /\ stat' = INIT_STATUS
            /\ ao'.state = RESET_STATE
       /\ (evt = <<INIT_SIG>> /\ hpc = "entry" /\ hpc' # "entry") =>
            /\ hpc' = "wait"
            /\ entries' = 1
            /\ ao'.state = RESET_STATE
            /\ ResetOutputsOff(ao')]_vars

\* The initial dispatch has returned while two events posted meanwhile are
\* still queued.
C11_Witness ==
    /\ hpc = "wait"
    /\ stat = INIT_STATUS
    /\ entries = 1
    /\ ao.state = RESET_STATE
    /\ Len(queue) >= 2

(***************************************************************************)
(* CmdSpec: Spec with the status and set commands of the console.          *)
(***************************************************************************)
\* argv of the set commands the operator types
SetArgs ==
    {<< >>,
     <<<<"K", "p">>, <<"1", "2">>>>,
     <<<<"k", "I">>, <<"0", "x", "0">>>>,
     <<<<"K", "x">>, <<"1">>>>,
     <<<<"T", "a", "u">>, <<"2">>, <<"K", "d">>>>,
     <<<<"K", "D">>, <<"0">>, <<"g", "a", "i", "n">>, <<"2">>>>}

CmdStatus ==
    /\ ncmd < MaxCmds
    /\ ncmd' = ncmd + 1
    /\ ao' = reflow_status_cmd(ao)
    /\ UNCHANGED <<g, queue, hvars, tvars>>
    /\ hist' = NoHist

CmdSet ==
    /\ ncmd < MaxCmds
    /\ ncmd' = ncmd + 1
    /\ \E argv \in SetArgs : ao' = reflow_set_cmd(ao, argv).ao
    /\ UNCHANGED <<g, queue, hvars, tvars>>
    /\ hist' = NoHist

CmdNext == Next \/ CmdStatus \/ CmdSet

CmdSpec == Init /\ [][CmdNext]_vars

ControlTickStep == tpc' # tpc /\ (tpc = "pid_output" \/ tpc' = "pid_output")

HandlerStep == hpc' # hpc /\ (hpc \in {"action", "entry"} \/ hpc' = "action")

\* C12: the control tick and the handler never interleave: the tick takes
\* no step (no access to the controller, no post) while a handler invocation
\* is between its table action and its return, and no handler invocation
\* starts or proceeds while a control tick is between its read and its
\* output.
C12_TickAndHandlerSerialised ==
    [][/\ ControlTickStep => ~HandlerInProgress
       /\ HandlerStep => tpc # "pid_output"]_vars


\* C14: the per-tick action of the control loop (reflow_pid_iteration, which
\* indexes reflow_phases with state - 1) starts only while the state is one
\* of the five running states, and never while the state is RESET, the
\* window between a table action setting RESET and the RESET entry action
\* stopping the control timer included.
C14_TickOnlyInRunningStates ==
    [][(tpc = "idle" /\ tpc' = "pid_output") => ao.state \in RunningStates]_vars

\* C20: a control tick in a running state whose temperature read fails does
\* not use the reading: it posts no REACH_TEMP_SIG, does not advance the
\* setpoint, runs no PID iteration and writes no PWM compare value; its
\* only effect is the post of STOP_REFLOW_SIG.
C20_FailedReadOnlyRequestsStop ==
    [][/\ (tpc = "idle" /\ tpc' = "pid_output" /\ status' = FALSE
              /\ ao.state \in RunningStates) =>
            /\ ao' = ao
            /\ queue' = Active_post(queue, REFLOW_MSG_COUNT, STOP_REFLOW_SIG).q
       /\ (tpc = "pid_output" /\ tpc' = "idle" /\ status = FALSE
              /\ ao.state \in RunningStates) =>
            ao' = ao]_vars

(***************************************************************************)
(* active.c: the time events.  NumTimeEvents time events of one owner are  *)
(* registered before the threads start; the threads of the two active      *)
(* objects arm and disarm them (TimeEvent_arm step by step: the locked     *)
(* writes, the test of first_arm, the creation of the tick source, the     *)
(* write of first_arm) while the timer task runs TimeEvent_tick statement  *)
(* by statement; queue is the owner's queue, which nothing empties here.    *)
(* g holds first_arm, the tick sources started and the registered time     *)
(* events; hpc the position of each arming thread; tpc the position of     *)
(* TimeEvent_tick: its loop index i and the countdown t it holds in a      *)
(* register.  hist records, per time event, the latest arm or disarm that  *)
(* returned its lock, the ticks that examined the event since, the posts   *)
(* of the event since, whether the call was made during a tick's work on   *)
(* the event, and the number of calls and of tick callbacks.               *)
(***************************************************************************)
\* time events registered
NumTimeEvents == 2
\* TimeEvent_tick callbacks in one behaviour
MaxTicks == 3
\* TimeEvent_arm and TimeEvent_disarm calls in one behaviour
MaxArms == 3

ArmThreads == {"reflow", "cmd"}
ArmTimeouts == {1, 2}
ArmReloads == {0, 2}

Disarmed == <<"disarm">>
NeverArmed == << >>

TickIdle == [pc |-> "idle", i |-> 0, t |-> 0]

\* TimeEvent_arm lines 99-102: the writes made with the kernel locked.
TimeEvent_arm_locked(te, timeout, reload) ==
    [te EXCEPT !.timeout = timeout, !.reload = reload]

\* uint32_t x - 1
U32Dec(x) == IF x = -2147483647 - 1 THEN 2147483647 ELSE x - 1

\* TimeEvent_tick is between its read of the countdown of time_events[i]
\* (line 175) and its last write to it (line 177 or 181).
TickBusy(i) == tpc.i = i /\ tpc.pc \in {"dec", "post", "reload"}

TEInit ==
    /\ ao = reflow_init
    /\ g = [first_arm |-> FALSE, ms_timers |-> 0,
            time_events |-> [i \in 1 .. NumTimeEvents |->
                                TimeEvent_ctor(REACH_TIME_SIG + i - 1)]]
    /\ queue = << >>
    /\ hpc = [th \in ArmThreads |-> [pc |-> "idle", i |-> 0]]
    /\ evt = << >>
    /\ stat = IGNORE_STATUS
    /\ entries = 0
    /\ tpc = TickIdle
    /\ temp_reading = 0
    /\ status = TRUE
    /\ ncmd = 0
    /\ hist = [arm |-> [i \in 1 .. NumTimeEvents |-> NeverArmed],
               ticks |-> [i \in 1 .. NumTimeEvents |-> 0],
               posts |-> [i \in 1 .. NumTimeEvents |-> 0],
               during |-> [i \in 1 .. NumTimeEvents |-> 0],
               calls |-> 0, last |-> 0, nticks |-> 0]

\* Lines 99-102 of a call TimeEvent_arm(&time_events[i], timeout, reload).
TEArmLocked(th, i, timeout, reload) ==
    /\ hpc[th].pc = "idle"
    /\ hist.calls < MaxArms
    /\ g' = [g EXCEPT !.time_events[i] =
                         TimeEvent_arm_locked(@, timeout, reload)]
    /\ hpc' = [hpc EXCEPT ![th] = [pc |-> "first_arm", i |-> i]]
    /\ hist' = [hist EXCEPT !.arm[i] = <<timeout, reload>>,
                            !.ticks[i] = 0, !.posts[i] = 0,
                            !.during[i] = IF TickBusy(i) THEN 1 ELSE 0,
                            !.calls = @ + 1, !.last = i]
    /\ UNCHANGED <<ao, queue, evt, stat, entries, tvars, ncmd>>

\* Line 105: first_arm is tested.
TEArmTest(th) ==
    /\ hpc[th].pc = "first_arm"
    /\ hpc' = [hpc EXCEPT ![th].pc = IF g.first_arm = FALSE
                                      THEN "create" ELSE "idle"]
    /\ UNCHANGED <<ao, g, queue, evt, stat, entries, tvars, ncmd, hist>>

\* Lines 107-110: the tick source is created and started.
TEArmCreate(th) ==
    /\ hpc[th].pc = "create"
    /\ g' = [g EXCEPT !.ms_timers = @ + 1]
    /\ hpc' = [hpc EXCEPT ![th].pc = "set"]
    /\ UNCHANGED <<ao, queue, evt, stat, entries, tvars, ncmd, hist>>

\* Line 112: first_arm is set.
TEArmSet(th) ==
    /\ hpc[th].pc = "set"
    /\ g' = [g EXCEPT !.first_arm = TRUE]
    /\ hpc' = [hpc EXCEPT ![th].pc = "idle"]
    /\ UNCHANGED <<ao, queue, evt, stat, entries, tvars, ncmd, hist>>

\* TimeEvent_disarm(&time_events[i]), lines 119-121.
TEDisarm(th, i) ==
    /\ hpc[th].pc = "idle"
    /\ hist.calls < MaxArms
    /\ g' = [g EXCEPT !.time_events[i] = TimeEvent_disarm(@)]
    /\ hist' = [hist EXCEPT !.arm[i] = Disarmed,
                            !.ticks[i] = 0, !.posts[i] = 0,
                            !.during[i] = 0,
                            !.calls = @ + 1, !.last = i]
    /\ UNCHANGED <<ao, queue, hpc, evt, stat, entries, tvars, ncmd>>

\* The tick source fires: TimeEvent_tick is entered (line 170, i = 0).
TETickEnter ==
    /\ tpc.pc = "idle"
    /\ g.ms_timers > 0
    /\ hist.nticks < MaxTicks
    /\ tpc' = [pc |-> "check", i |-> 1, t |-> 0]
    /\ hist' = [hist EXCEPT !.nticks = @ + 1]
    /\ UNCHANGED <<ao, g, queue, hvars, temp_reading, status, ncmd>>

\* Lines 170-175: the loop test, and the countdown of time_events[i] read
\* and compared with 0.
TETickCheck ==
    /\ tpc.pc = "check"
    /\ IF tpc.i > NumTimeEvents
       THEN tpc' = TickIdle /\ hist' = hist
       ELSE /\ tpc' = IF g.time_events[tpc.i].timeout # 0
                      THEN [tpc EXCEPT !.pc = "dec",
                                       !.t = g.time_events[tpc.i].timeout]
                      ELSE [tpc EXCEPT !.i = @ + 1]
            /\ hist' = [hist EXCEPT !.ticks[tpc.i] = @ + 1]
    /\ UNCHANGED <<ao, g, queue, hvars, temp_reading, status, ncmd>>

\* Lines 177-178: the countdown is decremented and stored, and the stored
\* value compared with 0.  The field is not volatile and is written by
\* other threads meanwhile: the build may subtract from the value read at
\* line 175 or read the field again.
TETickDec ==
    /\ tpc.pc = "dec"
    /\ \E w \in {U32Dec(tpc.t), U32Dec(g.time_events[tpc.i].timeout)} :
          /\ g' = [g EXCEPT !.time_events[tpc.i].timeout = w]
          /\ tpc' = IF w = 0 THEN [tpc EXCEPT !.pc = "post", !.t = w]
                    ELSE [tpc EXCEPT !.pc = "check", !.i = @ + 1, !.t = 0]
    /\ UNCHANGED <<ao, queue, hvars, temp_reading, status, ncmd, hist>>

\* Line 180: the event is posted to its owner; the result is not looked at.
TETickPost ==
    /\ tpc.pc = "post"
    /\ queue' = Active_post(queue, REFLOW_MSG_COUNT,
                            g.time_events[tpc.i].sig).q
    /\ tpc' = [tpc EXCEPT !.pc = "reload"]
    /\ hist' = [hist EXCEPT !.posts[tpc.i] = @ + 1]
    /\ UNCHANGED <<ao, g, hvars, temp_reading, status, ncmd>>

\* Line 181: the countdown is set to the reload value.
TETickReload ==
    /\ tpc.pc = "reload"
    /\ g' = [g EXCEPT !.time_events[tpc.i].timeout =
                         g.time_events[tpc.i].reload]
    /\ tpc' = [tpc EXCEPT !.pc = "check", !.i = @ + 1, !.t = 0]
    /\ UNCHANGED <<ao, queue, hvars, temp_reading, status, ncmd, hist>>

TENext ==
    \/ \E th \in ArmThreads : \E i \in 1 .. NumTimeEvents :
          \E timeout \in ArmTimeouts : \E reload \in ArmReloads :
             TEArmLocked(th, i, timeout, reload)
    \/ \E th \in ArmThreads : TEArmTest(th)
    \/ \E th \in ArmThreads : TEArmCreate(th)
    \/ \E th \in ArmThreads : TEArmSet(th)
    \/ \E th \in ArmThreads : \E i \in 1 .. NumTimeEvents : TEDisarm(th, i)
    \/ TETickEnter
    \/ TETickCheck
    \/ TETickDec
    \/ TETickPost
    \/ TETickReload

TESpec == TEInit /\ [][TENext]_vars

\* C15: the accesses to a time event's countdown and reload by arm and
\* disarm exclude those of the tick handler: no arm or disarm of a time
\* event takes effect while TimeEvent_tick is between its read of that
\* event's countdown and its last write to it, so that a tick in progress
\* never overwrites a value written by arm or disarm.
C15_TickExcludesArmAndDisarm ==
    [][\A i \in 1 .. NumTimeEvents :
          (TickBusy(i) /\ hist'.calls # hist.calls) => hist'.last # i]_vars

\* C16: once disarm() of a time event has returned, and until the next
\* arm() of it, its countdown stays 0 and no tick posts its event.
C16_DisarmedStaysSilent ==
    [][\A i \in 1 .. NumTimeEvents :
          hist'.arm[i] = Disarmed =>
             /\ g'.time_events[i].timeout = 0
             /\ hist.arm[i] = Disarmed => hist'.posts[i] = hist.posts[i]]_vars

\* The ticks of time_events[i] that count since its latest arm, less the
\* one in progress.  A tick that was at work on the event when the arm was
\* made may be counted as the first tick after the arm or not (first = 1
\* or 0).
TicksBegun(i, first) == hist.ticks[i] + first
TicksDone(i, first) ==
    IF TickBusy(i) THEN TicksBegun(i, first) - 1 ELSE TicksBegun(i, first)

OneShotLaw(i, first) ==
    LET n == hist.arm[i][1]
    IN /\ TicksBegun(i, first) < n => hist.posts[i] = 0
       /\ hist.posts[i] <= 1
       /\ TicksDone(i, first) >= n => /\ hist.posts[i] = 1
                                      /\ g.time_events[i].timeout = 0

\* C17: after arm(n, 0) of a time event, n >= 1, and no further arm or
\* disarm of it, the first n - 1 ticks post nothing, the n-th tick posts
\* the event exactly once, and afterwards its countdown is 0 and no later
\* tick posts it again.
C17_OneShot ==
    \A i \in 1 .. NumTimeEvents :
       (hist.arm[i] \notin {NeverArmed, Disarmed} /\ hist.arm[i][2] = 0) =>
          \E first \in 0 .. hist.during[i] : OneShotLaw(i, first)

PeriodicLaw(i, first) ==
    LET n == hist.arm[i][1]
        r == hist.arm[i][2]
        due(k) == IF k < n THEN 0 ELSE 1 + ((k - n) \div r)
        left(k) == IF k < n THEN n - k ELSE r - ((k - n) % r)
    IN /\ due(TicksDone(i, first)) <= hist.posts[i]
       /\ hist.posts[i] <= due(TicksBegun(i, first))
       /\ ~TickBusy(i) => g.time_events[i].timeout = left(TicksDone(i, first))

\* C18: after arm(n, r) of a time event, n >= 1 and r >= 1, the event is
\* posted on tick n and then on every r-th tick until it is disarmed; each
\* tick decrements the countdown of every armed time event by exactly one
\* (reloading it when it reaches 0) and leaves the disarmed ones unchanged.
C18_Periodic ==
    \A i \in 1 .. NumTimeEvents :
       IF hist.arm[i] \in {NeverArmed, Disarmed}
       THEN ~TickBusy(i) => g.time_events[i].timeout = 0
       ELSE hist.arm[i][2] >= 1 =>
               \E first \in 0 .. hist.during[i] : PeriodicLaw(i, first)

\* C19: whatever the sequence and interleaving of arm() calls, the tick
\* source is created and started exactly once, by the first arm: once an
\* arm has passed its start section there is one tick source, and there is
\* never a second.
C19_TickSourceStartedOnce ==
    /\ g.ms_timers <= 1
    /\ g.first_arm => g.ms_timers = 1

\* Hot junction counts around a target of T degrees (T - 3 .. T + 3 in
\* quarter degrees) and from 0 to 2 degrees.
LeewayCounts(T) ==
    (((T - 3) * HJ_DIV) .. ((T + 3) * HJ_DIV)) \cup (0 .. (2 * HJ_DIV))

\* C21: a control tick in a reach-temperature phase posts REACH_TEMP_SIG
\* exactly when its reading is within 2 degrees of the target of the phase
\* (target - 2 <= reading <= target + 2), for every reading, those below 2
\* degrees included.
C21_ReachTempWithinTwoDegrees ==
    (/\ tpc = "idle"
     /\ ao.pid_timer
     /\ ao.state \in {PREHEAT_STATE, RAMPUP_STATE, COOLDOWN_STATE}
     /\ Len(queue) < REFLOW_MSG_COUNT) =>
        LET T == Phase(ao.state - 1).reach_temp
        IN \A hj \in LeewayCounts(T) :
              LET r == pid_iteration_read(queue, [err |-> "MAX_OK", hj |-> hj])
                  within == (T - 2) * HJ_DIV <= hj /\ hj <= (T + 2) * HJ_DIV
              IN \A p \in pid_iteration_phase(ao, r.q, r.temp_reading) :
                    (p.q = Append(queue, REACH_TEMP_SIG)) = within

\* argv of set commands that raise the gains
GainArgs ==
    {<<<<"K", "p">>, <<"5", "0">>>>,
     <<<<"K", "i">>, <<"4", "0">>>>,
     <<<<"K", "d">>, <<"3", "0">>, <<"t", "a", "u">>, <<"0">>>>,
     <<<<"K", "p">>, <<"9", "9", "9">>, <<"K", "i">>, <<"0", "x", "3", "E", "7">>>>}

\* C22: every value written to the PWM compare register, by the control
\* tick or by the RESET entry action, lies in 0 .. out_max (4095): the
\* register holds such a value in every reachable state, and so does the
\* value the next control tick writes, for every reading and for every
\* gain a set command may have set before it.
C22_PwmCompareInRange ==
    /\ ao.pwm_compare \in 0 .. OUT_MAX_INIT
    /\ (tpc = "idle" /\ ao.pid_timer) =>
          \A argv \in GainArgs \cup {<< >>} :
             \A rx \in TickReads :
                \A res \in reflow_pid_iteration(reflow_set_cmd(ao, argv).ao,
                                                queue, rx) :
                   res.ao.pwm_compare \in 0 .. OUT_MAX_INIT

\* The control tick has written a value computed with a gain that a set
\* command changed.
C22_Witness ==
    /\ ao.pid_params.Kp = 12
    /\ ao.pwm_compare > 0
    /\ ao.state \in RunningStates
    /\ tpc = "idle"

(***************************************************************************)
(* pid.c on its own: a controller initialised with a configuration drawn   *)
(* from PidCfgs, then any sequence of PID_Calculate and PID_Reset calls on *)
(* setpoints and measurements drawn from small sets.  The controller is    *)
(* ao.pid_params; hist records the latest call, its arguments and the      *)
(* controller before it, and the number of PID_Calculate calls.            *)
(***************************************************************************)
\* PID_Calculate calls in one behaviour
MaxCalcs == 3

\* output limits (out_min, out_max)
PidLimits == {<<OUT_MIN_INIT, OUT_MAX_INIT>>, <<-2000, 2000>>}

PidCfgs ==
    {[Kp |-> kp, Ki |-> ki, Kd |-> kd, tau |-> TAU_INIT,
      out_max |-> lim[2] * FX, out_min |-> lim[1] * FX] :
        kp \in {0, KP_INIT, 50}, ki \in {0, 4}, kd \in {0, 1},
        lim \in PidLimits}

PidSetpoints == {0, 100 * FX, 215 * FX}
PidMeasurements == {0, 35 * FX, 100 * FX, 300 * FX}

PidInit ==
    /\ \E cfg \in PidCfgs :
          /\ ao = [reflow_init EXCEPT !.pid_params = PID_Init(cfg)]
          /\ hist = [op |-> "init", pre |-> PID_Init(cfg), setpoint |-> 0,
                     measurement |-> 0, calcs |-> 0]
    /\ g = [first_arm |-> FALSE, ms_timers |-> 0]
    /\ queue = << >>
    /\ hpc = "start"
    /\ evt = << >>
    /\ stat = IGNORE_STATUS
    /\ entries = 0
    /\ tpc = "idle"
    /\ temp_reading = 0
    /\ status = TRUE
    /\ ncmd = 0

PidCalculate ==
    /\ hist.calcs < MaxCalcs
    /\ \E setpoint \in PidSetpoints : \E measurement \in PidMeasurements :
          /\ ao' = [ao EXCEPT !.pid_params =
                                 PID_Calculate(@, setpoint, measurement)]
          /\ hist' = [op |-> "calc", pre |-> ao.pid_params,
                      setpoint |-> setpoint, measurement |-> measurement,
                      calcs |-> hist.calcs + 1]
    /\ UNCHANGED <<g, queue, hvars, tvars, ncmd>>

PidReset ==
    /\ hist.op # "init"
    /\ ao' = [ao EXCEPT !.pid_params = PID_Reset(@)]
    /\ hist' = [hist EXCEPT !.op = "reset", !.pre = ao.pid_params]
    /\ UNCHANGED <<g, queue, hvars, tvars, ncmd>>

PidNext == PidCalculate \/ PidReset

PidSpec == PidInit /\ [][PidNext]_vars

\* C23: after any sequence of PID_Calculate calls, on any setpoints and
\* measurements, the output returned and stored by the latest call lies
\* between out_lim_min and out_lim_max.
C23_OutputWithinLimits ==
    hist.op = "calc" =>
        /\ ao.pid_params.out_lim_min <= ao.pid_params.out
        /\ ao.pid_params.out <= ao.pid_params.out_lim_max

\* The third call of a sequence has cut its output down to the upper limit.
C23_Witness ==
    /\ hist.op = "calc"
    /\ hist.calcs = MaxCalcs
    /\ ao.pid_params.out = ao.pid_params.out_lim_max
    /\ ao.pid_params.proportional + ao.pid_params.integral
          + ao.pid_params.derivative > ao.pid_params.out_lim_max

\* C24: a PID_Calculate call that finds the previous output at out_lim_max
\* with an error > 0, or at out_lim_min with an error < 0, leaves the
\* integral term as it was; one that finds the previous output at a limit
\* with an error of the opposite sign adds 0.5 * Ki * Ts * (error +
\* prev_error) to it.
C24_AntiWindup ==
    hist.op = "calc" =>
        LET pre == hist.pre
            error == hist.setpoint - hist.measurement
            step == (pre.Ki * TS_NUM * (error + pre.prev_error))
                       \div (2 * TS_DEN)
        IN /\ (\/ pre.out = pre.out_lim_max /\ error > 0
               \/ pre.out = pre.out_lim_min /\ error < 0) =>
                 ao.pid_params.integral = pre.integral
           /\ (\/ pre.out = pre.out_lim_max /\ error < 0
               \/ pre.out = pre.out_lim_min /\ error > 0) =>
                 ao.pid_params.integral = pre.integral + step

\* A call found the output at the upper limit with an error > 0 that the
\* integral term would otherwise have accumulated.
C24_Witness ==
    /\ hist.op = "calc"
    /\ hist.pre.out = hist.pre.out_lim_max
    /\ hist.setpoint - hist.measurement > 0
    /\ hist.pre.Ki > 0
    /\ hist.pre.integral > 0
    /\ ao.pid_params.integral = hist.pre.integral

\* C25: PID_Reset, from any controller state, sets integral, derivative,
\* prev_error, prev_measurement, out and proportional to 0 and leaves Kp,
\* Ki, Kd, tau and the two limits as they were (Ts is fixed); a second
\* PID_Reset changes nothing more.
C25_ResetClearsMemoryOnly ==
    /\ hist.op = "reset" =>
          /\ PidMemoryZero(ao.pid_params)
          /\ ao.pid_params.proportional = 0
          /\ \A f \in {"Kp", "Ki", "Kd", "tau", "out_lim_max", "out_lim_min"} :
                ao.pid_params[f] = hist.pre[f]
    /\ PID_Reset(PID_Reset(ao.pid_params)) = PID_Reset(ao.pid_params)
    /\ DOMAIN PID_Reset(ao.pid_params) = DOMAIN ao.pid_params

\* PID_Reset was applied to a controller whose memory was not zero.
C25_Witness ==
    /\ hist.op = "reset"
    /\ hist.pre.integral # 0
    /\ hist.pre.derivative # 0
    /\ hist.pre.out # 0
    /\ hist.pre.prev_error # 0
    /\ hist.pre.prev_measurement # 0

\* C26: no operator command is swallowed: a start or stop command whose
\* event cannot be queued (the queue of the reflow active object is full)
\* is reported to the operator as a failure, not as posted; so that a stop
\* command reported as posted is in the queue and brings the controller to
\* RESET.
C26_CommandNotSwallowed ==
    (ncmd < MaxCmds
       /\ Active_post(queue, REFLOW_MSG_COUNT, STOP_REFLOW_SIG).err # MOD_OK) =>
        /\ reflow_stop_cmd(queue) = queue
        /\ reflow_stop_report(queue).ret # 0
        /\ reflow_stop_report(queue).log # "Posted STOP signal"
        /\ reflow_start_cmd(queue) = queue
        /\ reflow_start_report(queue).ret # 0
        /\ reflow_start_report(queue).log # "Posted START signal"

\* argv of set commands that end in an error after a well-formed pair
BadSetArgs ==
    {<<<<"K", "p">>, <<"1", "2">>, <<"g", "a", "i", "n">>, <<"2">>>>,
     <<<<"t", "a", "u">>, <<"3">>, <<"K", "i">>, <<"1">>, <<"K", "x">>, <<"1">>>>}

\* C27: a set command that returns an error (no argument, an odd number of
\* arguments, or an unknown parameter name anywhere in the list) leaves Kp,
\* Ki, Kd and tau as they were before the command: no earlier pair of the
\* command stays applied.
C27_FailedSetChangesNothing ==
    \A argv \in SetArgs \cup GainArgs \cup BadSetArgs :
       LET r == reflow_set_cmd(ao, argv)
       IN r.ret # 0 =>
             \A f \in {"Kp", "Ki", "Kd", "tau"} :
                r.ao.pid_params[f] = ao.pid_params[f]

\* The (state, signal) pairs the state machine leaves without effect.
IgnoredPair(state, sig) ==
    \/ sig = START_REFLOW_SIG /\ state \in RunningStates
    \/ sig = INIT_SIG /\ state \in RunningStates
    \/ sig = REACH_TIME_SIG /\ state \notin {SOAK_STATE, PEAK_STATE}
    \/ sig = REACH_TEMP_SIG /\ state \notin {PREHEAT_STATE, RAMPUP_STATE, COOLDOWN_STATE}
    \/ sig = STOP_REFLOW_SIG /\ state = RESET_STATE

\* In every reachable state, the handler given a signal of an ignored pair
\* returns the controller as it got it.
IgnoredPairsAreNoOps ==
    \A sig \in 0 .. (NUM_REFLOW_SIGS - 1) :
       IgnoredPair(ao.state, sig) =>
          reflow_evt_handler(ao, g, sig, NoRead)
             = {[ao |-> ao, g |-> g, stat |-> IGNORE_STATUS, entries |-> 0]}

\* The dispatch of an event of an ignored pair changes nothing and is not
\* followed by an entry action.
IgnoredDispatchStep ==
    (hpc = "action" /\ hpc' # "action" /\ IgnoredPair(ao.state, evt[1])) =>
        /\ ao' = ao
        /\ g' = g
        /\ stat' = IGNORE_STATUS
        /\ hpc' = "wait"
        /\ entries' = 0

\* C28: an event whose table cell is the ignore action is a no-op: START and
\* INIT in a running state, REACH_TIME outside SOAK and PEAK, REACH_TEMP
\* outside PREHEAT, RAMPUP and COOLDOWN, and STOP in RESET leave the state,
\* the setpoint, the step size, the PID state, the PWM compare value, the
\* control timer and the time event unchanged and run no entry action.
C28_IgnoredEventIsNoOp == []IgnoredPairsAreNoOps /\ [][IgnoredDispatchStep]_vars

\* A START typed during PREHEAT has been dispatched and ignored.
C28_Witness ==
    ao.state = PREHEAT_STATE /\ stat = IGNORE_STATUS /\ hpc = "wait" /\ ncmd = 2

(***************************************************************************)
(* active.c: Active_ctor and TimeEvent_ctor, called before multitasking    *)
(* starts.  g holds the evt_handler member of each active object, the      *)
(* time event objects, the table time_events with num_time_events, whether *)
(* a write landed past the end of the table, and whether an assertion has  *)
(* halted the program.  hist is the latest call with what it returned.     *)
(***************************************************************************)
\* a null pointer
NULL == 0

\* active.c line 31: the number of elements of time_events
TIME_EVENTS_SIZE == 10

\* time event objects the constructions choose from
NumCtorEvents == 2

\* active objects (reflow_ao, cmd_ao) and the handler given to them
CtorActives == {1, 2}
CtorHandlers == {1}

\* what the memory of a time event holds before its construction
RawTimeEvents ==
    {[sig |-> 0, ao |-> NULL, timeout |-> 0, reload |-> 0],
     [sig |-> 5, ao |-> 2, timeout |-> 7, reload |-> 7]}

\* Active_ctor binding the handler whenever the active object is present.
Active_ctor_handler_unchecked(handlers, a, evt_handler) ==
    IF a = NULL
    THEN [handlers |-> handlers, err |-> MOD_ERR_ARG]
    ELSE [handlers |-> [handlers EXCEPT ![a] = evt_handler], err |-> MOD_OK]

\* Active_ctor: handlers[a] is the evt_handler member of active object a.
Active_ctor(handlers, a, evt_handler) ==
    IF evt_handler = NULL \/ a = NULL
    THEN [handlers |-> handlers, err |-> MOD_ERR_ARG]
    ELSE [handlers |-> [handlers EXCEPT ![a] = evt_handler], err |-> MOD_OK]

\* TimeEvent_ctor lines 86-89: the fields of the object.
TimeEvent_ctor_fields(sig, a) ==
    [sig |-> TimeEvent_ctor(sig).sig, ao |-> a,
     timeout |-> TimeEvent_ctor(sig).timeout,
     reload |-> TimeEvent_ctor(sig).reload]

\* TimeEvent_ctor lines 86-93 without the assertion of line 92: the store
\* at index num_time_events happens whatever the index is.
TimeEvent_ctor_unasserted(c, i, sig, a) ==
    LET c1 == [c EXCEPT !.objs[i] = TimeEvent_ctor_fields(sig, a)]
    IN IF c1.num_time_events < TIME_EVENTS_SIZE
       THEN [c1 EXCEPT !.time_events[c1.num_time_events + 1] = i,
                       !.num_time_events = (@ + 1) % 256]
       ELSE [c1 EXCEPT !.overrun = TRUE,
                       !.num_time_events = (@ + 1) % 256]

\* TimeEvent_ctor lines 86-93 on time event object i: the fields are
\* written, the assertion halts when the table is full, otherwise the
\* object is stored at index num_time_events and the count goes up.
TimeEvent_ctor_call(c, i, sig, a) ==
    LET c1 == [c EXCEPT !.objs[i] = TimeEvent_ctor_fields(sig, a)]
    IN IF ~(c1.num_time_events < TIME_EVENTS_SIZE)
       THEN [c1 EXCEPT !.halted = TRUE]
       ELSE [c1 EXCEPT !.time_events[c1.num_time_events + 1] = i,
                       !.num_time_events = (@ + 1) % 256]

CtorInit ==
    /\ ao = reflow_init
    /\ \E raw \in RawTimeEvents :
          g = [first_arm |-> FALSE, ms_timers |-> 0,
               handlers |-> [a \in CtorActives |-> NULL],
               objs |-> [i \in 1 .. NumCtorEvents |-> raw],
               time_events |-> [k \in 1 .. TIME_EVENTS_SIZE |-> NULL],
               num_time_events |-> 0,
               overrun |-> FALSE,
               halted |-> FALSE]
    /\ queue = << >>
    /\ hpc = "start"
    /\ evt = << >>
    /\ stat = IGNORE_STATUS
    /\ entries = 0
    /\ tpc = "idle"
    /\ temp_reading = 0
    /\ status = TRUE
    /\ ncmd = 0
    /\ hist = [op |-> "none", a |-> NULL, h |-> NULL, i |-> 0, err |-> MOD_OK]

\* A call Active_ctor(a, evt_handler), either argument possibly null.
CtorActive ==
    /\ ~g.halted
    /\ \E a \in CtorActives \cup {NULL} : \E h \in CtorHandlers \cup {NULL} :
          LET r == Active_ctor(g.handlers, a, h)
          IN /\ g' = [g EXCEPT !.handlers = r.handlers]
             /\ hist' = [op |-> "Active_ctor", a |-> a, h |-> h, i |-> 0,
                         err |-> r.err]
    /\ UNCHANGED <<ao, queue, hvars, tvars, ncmd>>

\* A call TimeEvent_ctor(&objs[i], sig, a).
CtorTimeEvent ==
    /\ ~g.halted
    /\ \E i \in 1 .. NumCtorEvents :
          /\ g' = TimeEvent_ctor_call(g, i, REACH_TIME_SIG + i - 1, 1)
          /\ hist' = [op |-> "TimeEvent_ctor", a |-> 1, h |-> NULL, i |-> i,
                      err |-> MOD_OK]
    /\ UNCHANGED <<ao, queue, hvars, tvars, ncmd>>

CtorNext == CtorActive \/ CtorTimeEvent

CtorSpec == CtorInit /\ [][CtorNext]_vars

\* C29: Active_ctor given no handler, or no active object, returns
\* MOD_ERR_ARG and binds nothing; given both it binds the handler to the
\* active object (and to no other) and returns MOD_OK.
C29_ActiveCtorChecksArguments ==
    [][hist'.op = "Active_ctor" =>
          IF hist'.h = NULL \/ hist'.a = NULL
          THEN hist'.err = MOD_ERR_ARG /\ g' = g
          ELSE /\ hist'.err = MOD_OK
               /\ g'.handlers[hist'.a] = hist'.h
               /\ g' = [g EXCEPT !.handlers[hist'.a] = hist'.h]]_vars

\* A call without a handler on an active object that an earlier call bound:
\* the binding is still there.
C29_Witness ==
    /\ hist.op = "Active_ctor" /\ hist.h = NULL /\ hist.a # NULL
    /\ hist.err = MOD_ERR_ARG
    /\ g.handlers[hist.a] # NULL

\* The first n elements of the table, the ones in use.
Registered(c) == [k \in 1 .. c.num_time_events |-> c.time_events[k]]

\* C30: a construction of a time event registers it exactly once in the
\* table, with countdown 0 and reload 0; the number registered never passes
\* the capacity of 10; a construction with ten registered halts and writes
\* neither the table nor anything past it.
C30_TimeEventRegisteredOnce ==
    [][/\ g'.num_time_events <= TIME_EVENTS_SIZE
       /\ ~g'.overrun
       /\ hist'.op = "TimeEvent_ctor" =>
             /\ g'.objs[hist'.i].timeout = 0
             /\ g'.objs[hist'.i].reload = 0
             /\ IF g.num_time_events < TIME_EVENTS_SIZE
                THEN /\ ~g'.halted
                     /\ Registered(g') = Append(Registered(g), hist'.i)
                     /\ \A k \in (g'.num_time_events + 1) .. TIME_EVENTS_SIZE :
                           g'.time_events[k] = g.time_events[k]
                ELSE /\ g'.halted
                     /\ g'.time_events = g.time_events
                     /\ g'.num_time_events = g.num_time_events]_vars

\* The eleventh construction has halted the program with ten registered.
C30_Witness ==
    /\ g.halted /\ hist.op = "TimeEvent_ctor"
    /\ g.num_time_events = TIME_EVENTS_SIZE
    /\ g.objs[hist.i].timeout = 0

\* (soak target - preheat target) / (soak duration / Ts), in fixed point
SoakStep ==
    ((Phase(SOAK_STATE - 1).reach_temp - Phase(PREHEAT_STATE - 1).reach_temp) * FX)
    \div ((Phase(SOAK_STATE - 1).reach_time * TS_DEN) \div TS_NUM)

\* The first half of a control tick whose read succeeded, in a running state.
TickSensesInRun ==
    /\ tpc = "idle" /\ tpc' = "pid_output"
    /\ status' = TRUE
    /\ ao.state \in RunningStates

SetpointLaw ==
    TickSensesInRun =>
        IF Phase(ao.state - 1).phase_type = REACHTIME
        THEN /\ ao'.setpoint = ao.setpoint + ao.step_size
             /\ ao.state = PEAK_STATE => ao.step_size = 0
             /\ ao.state = SOAK_STATE => ao.step_size = SoakStep
        ELSE ao'.setpoint = Phase(ao.state - 1).reach_temp * FX

\* C31: on a control tick whose read succeeded, in SOAK and PEAK the
\* setpoint goes up by exactly step_size before the PID iteration, and in
\* PREHEAT, RAMPUP and COOLDOWN the setpoint is the target of that phase;
\* in PEAK step_size is 0 and in SOAK it is (soak target - preheat target)
\* / (soak duration / Ts).
C31_SetpointFollowsPhase == [][SetpointLaw]_vars

(***************************************************************************)
(* pid.c: two controllers with the same configuration fed the same         *)
(* measurements and setpoints of their own.  ao.pid_params is the first,   *)
(* hist.twin the second; hist.pre is the first before the latest call.     *)
(***************************************************************************)
\* PID_Calculate calls made on each of the two controllers
MaxPairCalcs == 3

PairCfgs == {cfg \in PidCfgs : cfg.Kd # 0}

\* setpoints of the second controller
TwinSetpoints == {0, 215 * FX}

PairInit ==
    /\ \E cfg \in PairCfgs :
          /\ ao = [reflow_init EXCEPT !.pid_params = PID_Init(cfg)]
          /\ hist = [twin |-> PID_Init(cfg), pre |-> PID_Init(cfg),
                     measurement |-> 0, setpoints |-> <<0, 0>>, calcs |-> 0]
    /\ g = [first_arm |-> FALSE, ms_timers |-> 0]
    /\ queue = << >>
    /\ hpc = "start"
    /\ evt = << >>
    /\ stat = IGNORE_STATUS
    /\ entries = 0
    /\ tpc = "idle"
    /\ temp_reading = 0
    /\ status = TRUE
    /\ ncmd = 0

\* One PID_Calculate call on each controller, same measurement.
PairCalculate ==
    /\ hist.calcs < MaxPairCalcs
    /\ \E measurement \in PidMeasurements :
       \E sp1 \in PidSetpoints : \E sp2 \in TwinSetpoints :
          /\ ao' = [ao EXCEPT !.pid_params = PID_Calculate(@, sp1, measurement)]
          /\ hist' = [twin |-> PID_Calculate(hist.twin, sp2, measurement),
                      pre |-> ao.pid_params,
                      measurement |-> measurement,
                      setpoints |-> <<sp1, sp2>>,
                      calcs |-> hist.calcs + 1]
    /\ UNCHANGED <<g, queue, hvars, tvars, ncmd>>

PairNext == PairCalculate

PairSpec == PairInit /\ [][PairNext]_vars

\* -(2*Kd*(measurement - prev_measurement) + (2*tau - Ts)*prev_D)
\*   / (2*tau + Ts), with Ts = TS_NUM / TS_DEN
DerivativeLaw(pre, measurement) ==
    -((2 * pre.Kd * (measurement - pre.prev_measurement) * TS_DEN
       + (2 * pre.tau * TS_DEN - TS_NUM) * pre.derivative)
      \div (2 * pre.tau * TS_DEN + TS_NUM))

\* C32: the derivative term depends on the measurements only: two
\* controllers with the same gains and the same measurement sequence have
\* the same derivative after every iteration whatever their setpoints, and
\* each iteration computes D = -(2*Kd*(measurement - prev_measurement)
\* + (2*tau - Ts)*prev_D) / (2*tau + Ts).
C32_DerivativeOnMeasurement ==
    hist.calcs > 0 =>
        /\ ao.pid_params.derivative = hist.twin.derivative
        /\ ao.pid_params.derivative = DerivativeLaw(hist.pre, hist.measurement)

\* Third iteration, setpoints apart, measurement moved, filter memory in use.
C32_Witness ==
    /\ hist.calcs = 3
    /\ hist.setpoints[1] # hist.setpoints[2]
    /\ hist.measurement # hist.pre.prev_measurement
    /\ hist.pre.derivative # 0
    /\ ao.pid_params.derivative # 0
    /\ ao.pid_params.out # hist.twin.out

(***************************************************************************)
(* console.c: console_process, and cmd.c: Cmd_Event_Handler in the event   *)
(* loop of the command active object.  Characters are their codes.  g is   *)
(* the console (cmd_buf, num_cmd_buf_chars), the log switch, the command   *)
(* active object's cmd_buf, and whether a store landed outside             *)
(* console.cmd_buf; queue is the command active object's queue.  hist      *)
(* keeps the latest key, the line held at each Enter, the Enter each       *)
(* queued event came from, and the lines executed.                         *)
(***************************************************************************)
\* console.h
CONSOLE_CMD_BUF_SIZE == 40
\* cmd.h
CMD_EVENT_MSG_COUNT == 5
CMD_RX_SIG == 2
\* log.h: LOG_TOGGLE_CHAR is the tab character
LOG_TOGGLE_CHAR == 9

\* characters processed after the start of a behaviour
MaxKeys == 4

\* a, b, line feed, carriage return, backspace, delete, tab, start of heading
Keys == {97, 98, 10, 13, 8, 127, LOG_TOGGLE_CHAR, 1}

\* characters typed (all of them a) before the behaviour starts
TypedBefore == {0, 1, 38, 39}

\* <ctype.h> isprint in the C locale
isprint(c) == c \in 32 .. 126

\* The string a character array holds: the characters before the first
\* terminator (the whole array when there is none).
CString(buf) ==
    LET ends == {k \in 1 .. Len(buf) : buf[k] = 0}
        n == IF ends = {} THEN Len(buf)
             ELSE (CHOOSE k \in ends : \A j \in ends : k <= j) - 1
    IN SubSeq(buf, 1, n)

\* strncpy(dst, src, n) on a source array of at least n characters: the
\* string, padded with terminators up to n.
strncpy(src, n) ==
    LET str == CString(SubSeq(src, 1, n))
    IN [k \in 1 .. n |-> IF k <= Len(str) THEN str[k] ELSE 0]

\* cmd_buf[i] = c for a C index i: inside the array, or a store outside it.
StoreChar(con, i, c) ==
    IF i \in 0 .. (CONSOLE_CMD_BUF_SIZE - 1)
    THEN [con EXCEPT !.cmd_buf[i + 1] = c]
    ELSE [con EXCEPT !.overrun = TRUE]

\* console_process accepting a printable character while the count is at
\* most CONSOLE_CMD_BUF_SIZE - 1.
console_process_full_line(con, q, c) ==
    IF c = 10 \/ c = 13
    THEN [con |-> [StoreChar(con, con.num_cmd_buf_chars, 0)
                      EXCEPT !.num_cmd_buf_chars = 0],
          q |-> Active_post(q, CMD_EVENT_MSG_COUNT, CMD_RX_SIG).q]
    ELSE IF c = 8 \/ c = 127
    THEN [con |-> IF con.num_cmd_buf_chars > 0
                  THEN [con EXCEPT !.num_cmd_buf_chars = @ - 1]
                  ELSE con,
          q |-> q]
    ELSE IF c = LOG_TOGGLE_CHAR
    THEN [con |-> [con EXCEPT !.log_active = ~@], q |-> q]
    ELSE IF isprint(c)
    THEN [con |-> IF con.num_cmd_buf_chars <= CONSOLE_CMD_BUF_SIZE - 1
                  THEN [StoreChar(con, con.num_cmd_buf_chars, c)
                           EXCEPT !.num_cmd_buf_chars = (@ + 1) % 65536]
                  ELSE con,
          q |-> q]
    ELSE [con |-> con, q |-> q]

\* console_process(c): the console after the call and the command active
\* object's queue.
console_process(con, q, c) ==
    IF c = 10 \/ c = 13
    THEN [con |-> [StoreChar(con, con.num_cmd_buf_chars, 0)
                      EXCEPT !.num_cmd_buf_chars = 0],
          q |-> Active_post(q, CMD_EVENT_MSG_COUNT, CMD_RX_SIG).q]
    ELSE IF c = 8 \/ c = 127
    THEN [con |-> IF con.num_cmd_buf_chars > 0
                  THEN [con EXCEPT !.num_cmd_buf_chars = @ - 1]
                  ELSE con,
          q |-> q]
    ELSE IF c = LOG_TOGGLE_CHAR
    THEN [con |-> [con EXCEPT !.log_active = ~@], q |-> q]
    ELSE IF isprint(c)
    THEN [con |-> IF con.num_cmd_buf_chars < CONSOLE_CMD_BUF_SIZE - 1
                  THEN [StoreChar(con, con.num_cmd_buf_chars, c)
                           EXCEPT !.num_cmd_buf_chars = (@ + 1) % 65536]
                  ELSE con,
          q |-> q]
    ELSE [con |-> con, q |-> q]

\* Cmd_Event_Handler, case CMD_RX_SIG, line 477: the copy of the line the
\* event points to, which is console.cmd_buf.
Cmd_Event_Handler_copy(con) ==
    [con EXCEPT !.cmd_ao_buf = strncpy(con.cmd_buf, CONSOLE_CMD_BUF_SIZE)]

ConsoleInit ==
    /\ ao = reflow_init
    /\ \E n \in TypedBefore :
          g = [first_arm |-> FALSE, ms_timers |-> 0,
               cmd_buf |-> [k \in 1 .. CONSOLE_CMD_BUF_SIZE |->
                               IF k <= n THEN 97 ELSE 0],
               num_cmd_buf_chars |-> n,
               overrun |-> FALSE,
               log_active |-> TRUE,
               cmd_ao_buf |-> [k \in 1 .. CONSOLE_CMD_BUF_SIZE |-> 0]]
    /\ queue = << >>
    /\ hpc = "start"
    /\ evt = << >>
    /\ stat = IGNORE_STATUS
    /\ entries = 0
    /\ tpc = "idle"
    /\ temp_reading = 0
    /\ status = TRUE
    /\ ncmd = 0
    /\ hist = [keys |-> 0, key |-> 0, entered |-> << >>, pending |-> << >>,
               cur |-> 0, executed |-> << >>]

\* Console_thread lines 133-141: one character is taken and processed.
ConsoleKey ==
    /\ hist.keys < MaxKeys
    /\ \E c \in Keys :
         LET r == console_process(g, queue, c)
             enter == c = 10 \/ c = 13
             line == CString(r.con.cmd_buf)
             n == Len(hist.entered) + 1
         IN /\ g' = r.con
            /\ queue' = r.q
            /\ hist' = [hist EXCEPT
                          !.keys = @ + 1,
                          !.key = c,
                          !.entered = IF enter THEN Append(@, line) ELSE @,
                          !.pending = IF enter /\ Len(r.q) > Len(queue)
                                      THEN Append(@, n) ELSE @]
    /\ UNCHANGED <<ao, hvars, tvars, ncmd>>

\* Active_event_loop line 140: the initial event (logged only).
CmdLoopInit ==
    /\ hpc = "start"
    /\ hpc' = "wait"
    /\ hist' = [hist EXCEPT !.key = 0]
    /\ UNCHANGED <<ao, g, queue, evt, stat, entries, tvars, ncmd>>

\* Active_event_loop lines 147-155: the pointer to the event is taken.
CmdLoopGet ==
    /\ hpc = "wait"
    /\ queue # << >>
    /\ queue' = Tail(queue)
    /\ evt' = <<Head(queue)>>
    /\ hpc' = "handler"
    /\ hist' = [hist EXCEPT !.key = 0, !.cur = Head(hist.pending),
                            !.pending = Tail(hist.pending)]
    /\ UNCHANGED <<ao, g, stat, entries, tvars, ncmd>>

\* Cmd_Event_Handler lines 475-479: the line is copied and executed.
CmdHandle ==
    /\ hpc = "handler"
    /\ g' = Cmd_Event_Handler_copy(g)
    /\ hpc' = "wait"
    /\ evt' = << >>
    /\ hist' = [hist EXCEPT !.key = 0, !.cur = 0,
                            !.executed = Append(@, [enter |-> hist.cur,
                                                    line |-> CString(g'.cmd_ao_buf)])]
    /\ UNCHANGED <<ao, queue, stat, entries, tvars, ncmd>>

ConsoleNext == ConsoleKey \/ CmdLoopInit \/ CmdLoopGet \/ CmdHandle

ConsoleSpec == ConsoleInit /\ [][ConsoleNext]_vars

\* C33: for every Enter, the line the command active object executes is the
\* line the console held when that Enter was processed: the copy is made
\* before the console writes the next character into the shared buffer.
C33_ExecutedLineIsEnteredLine ==
    \A k \in 1 .. Len(hist.executed) :
       hist.executed[k].line = hist.entered[hist.executed[k].enter]

\* The count is inside 0 .. CONSOLE_CMD_BUF_SIZE - 1 and no store has
\* landed outside the buffer.
CountInsideBuffer ==
    /\ g.num_cmd_buf_chars \in 0 .. (CONSOLE_CMD_BUF_SIZE - 1)
    /\ ~g.overrun

\* What the processing of one character does at the two ends of the buffer
\* and on Enter.
ConsoleKeyLaw ==
    hist'.keys # hist.keys =>
        LET c == hist'.key
        IN /\ (c \in {8, 127} /\ g.num_cmd_buf_chars = 0) => g' = g
           /\ (isprint(c) /\ g.num_cmd_buf_chars = CONSOLE_CMD_BUF_SIZE - 1) =>
                 g' = g
           /\ c \in {10, 13} =>
                 /\ g.num_cmd_buf_chars + 1 \in DOMAIN g.cmd_buf
                 /\ g' = [g EXCEPT !.cmd_buf[g.num_cmd_buf_chars + 1] = 0,
                                   !.num_cmd_buf_chars = 0]

\* C39: for any sequence of received characters the console's character
\* count stays within 0..39: backspace at count 0 does not underflow, a
\* printable character at count 39 is rejected without being stored, and
\* Enter writes the terminator inside the buffer and resets the count to 0.
C39_CountStaysInBuffer == []CountInsideBuffer /\ [][ConsoleKeyLaw]_vars

\* A b typed on a full line has been rejected: the count is still 39 and
\* the last cell in use holds what it held.
C39_Witness ==
    /\ hist.key = 98
    /\ g.num_cmd_buf_chars = CONSOLE_CMD_BUF_SIZE - 1
    /\ g.cmd_buf[CONSOLE_CMD_BUF_SIZE - 1] = 97
    /\ g.cmd_buf[CONSOLE_CMD_BUF_SIZE] = 0

\* The edges of the reflow profile.
ProfileEdges ==
    {<<RESET_STATE, PREHEAT_STATE>>, <<PREHEAT_STATE, SOAK_STATE>>,
     <<SOAK_STATE, RAMPUP_STATE>>, <<RAMPUP_STATE, PEAK_STATE>>,
     <<PEAK_STATE, COOLDOWN_STATE>>, <<COOLDOWN_STATE, RESET_STATE>>}
    \cup {<<st, RESET_STATE>> : st \in RunningStates}

\* C34: the state changes only along RESET to PREHEAT, PREHEAT to SOAK,
\* SOAK to RAMPUP, RAMPUP to PEAK, PEAK to COOLDOWN, COOLDOWN to RESET and
\* any running state to RESET: no phase is skipped, no step goes back to a
\* running state, and RESET is left for PREHEAT only.
C34_StateFollowsProfile ==
    [][ao'.state # ao.state => <<ao.state, ao'.state>> \in ProfileEdges]_vars

\* A whole profile has been run: RESET again, entered from COOLDOWN.
C34_Witness ==
    /\ ao.state = RESET_STATE /\ hpc = "wait"
    /\ ao.setpoint = Phase(COOLDOWN_STATE - 1).reach_temp * FX

\* C35: whenever the reflow handler is not executing, the reflow time event
\* is armed (countdown above 0) only in SOAK and PEAK; in RESET, PREHEAT,
\* RAMPUP and COOLDOWN its countdown is 0.
C35_TimeEventArmedOnlyInTimedPhases ==
    hpc = "wait" =>
        (ao.reflow_time_evt.timeout > 0 => ao.state \in {SOAK_STATE, PEAK_STATE})

\* C36: whenever the reflow handler is not executing and the state is one
\* of the five running states, the periodic control timer is running and
\* the PWM output is started.
C36_ControlLoopActiveInRun ==
    (hpc = "wait" /\ ao.state \in RunningStates) =>
        (ao.pid_timer /\ ao.pwm_started)

\* The last phase of a run, the handler waiting, the loop still active.
C36_Witness ==
    /\ hpc = "wait" /\ ao.state = COOLDOWN_STATE
    /\ ao.pid_timer /\ ao.pwm_started
    /\ ao.pwm_compare > 0

(***************************************************************************)
(* The program with no STOP_REFLOW requested: every read of the control    *)
(* tick succeeds and the operator only types start.  Scheduling as in      *)
(* FairSpec.                                                               *)
(***************************************************************************)
\* reflow_pid_iteration lines 330-357 on a successful read.
PidSenseRead == PidSense /\ status' = TRUE

NoStopNext ==
    \/ LoopInit
    \/ LoopGet
    \/ HandlerAction
    \/ HandlerEntry
    \/ PidSenseRead
    \/ PidOutput
    \/ TickDec
    \/ TickRun
    \/ TickPost
    \/ TickReload
    \/ CmdStart

NoStopTimerTask ==
    PidSenseRead \/ PidOutput \/ TickDec \/ TickRun \/ TickPost \/ TickReload

NoStopSpec ==
    /\ Init
    /\ [][NoStopNext]_vars
    /\ WF_vars(HandlerThread)
    /\ WF_vars(NoStopTimerTask)
    /\ SF_vars(TimeTick)
    /\ SF_vars(PidSenseRead)

WarmReadings == {Phase(PREHEAT_STATE - 1).reach_temp * FX, 0}

\* reflow_pid_iteration lines 330-357 on such a read.
PidSenseWarm ==
    /\ PidSense
    /\ temp_reading' \in WarmReadings
    /\ temp_reading' = 0 => status' = FALSE

WarmNext ==
    \/ LoopInit
    \/ LoopGet
    \/ HandlerAction
    \/ HandlerEntry
    \/ PidSenseWarm
    \/ PidOutput
    \/ TickDec
    \/ TickRun
    \/ TickPost
    \/ TickReload
    \/ CmdStart
    \/ CmdStop

WarmSpec == Init /\ [][WarmNext]_vars

\* C38: a REACH_TEMP event takes the controller out of a reach-temperature
\* phase only if a reading within the window of that phase's target was
\* observed in that phase.  With no reading ever within the window of 215
\* or 35 degrees, RAMPUP is never left for PEAK, and COOLDOWN is left for
\* RESET by STOP_REFLOW only.
C38_ReachTempServesItsPhase ==
    [][/\ ao.state = RAMPUP_STATE => ao'.state # PEAK_STATE
       /\ (ao.state = COOLDOWN_STATE /\ ao'.state = RESET_STATE) =>
             evt = <<STOP_REFLOW_SIG>>]_vars

(***************************************************************************)
(* The UART transmit ring buffer (uart.c): uart_putc in one thread, in the *)
(* steps of its statements, and UART_ISR, which runs to completion between *)
(* any two of them.  The state is the one after uart_init and uart_start.  *)
(* g is the uart structure, the USART registers and the locals of          *)
(* uart_putc; hpc is the position in uart_putc; hist counts the characters *)
(* published and written to the transmit register.                         *)
(***************************************************************************)
\* uart.h
UART_TX_BUF_SIZE == 1024

\* stdint.h, as used by INC_SAT_U16
UINT16_MAX == 65535

MOD_ERR_BUF_OVERRUN == "MOD_ERR_BUF_OVERRUN"

\* calls of uart_putc in a behaviour
MaxPuts == 3

\* the characters passed to uart_putc
PutChars == {97, 98}

\* characters pending when a behaviour starts: none, or a full buffer
PendingBefore == {0, UART_TX_BUF_SIZE - 1}

\* tx_buf_get_idx when a behaviour starts: both indices wrap within it
GetBefore == UART_TX_BUF_SIZE - 2

\* the i-th character pending at the start
PendingChar(i) == 48 + (i % 10)

\* common.h INC_SAT_U16
INC_SAT_U16(a) == a + (IF a = UINT16_MAX THEN 0 ELSE 1)

\* write_tdr with the get index moved past the next character too
write_tdr_skips(u) ==
    IF u.tx_buf_get_idx = u.tx_buf_put_idx
    THEN [u EXCEPT !.TXEIE = FALSE]
    ELSE [u EXCEPT !.TDR = u.tx_buf[u.tx_buf_get_idx],
                   !.TXE = FALSE,
                   !.tx_buf_get_idx = (@ + 2) % UART_TX_BUF_SIZE]

\* uart.c write_tdr: the TXE interrupt is disabled on an empty buffer, else
\* the character at the get index is written to TDR (which clears TXE).
write_tdr(u) ==
    IF u.tx_buf_get_idx = u.tx_buf_put_idx
    THEN [u EXCEPT !.TXEIE = FALSE]
    ELSE [u EXCEPT !.TDR = u.tx_buf[u.tx_buf_get_idx],
                   !.TXE = FALSE,
                   !.tx_buf_get_idx = (@ + 1) % UART_TX_BUF_SIZE]

\* characters in the ring buffer
TxPending(u) ==
    (u.tx_buf_put_idx + UART_TX_BUF_SIZE - u.tx_buf_get_idx) % UART_TX_BUF_SIZE

\* After uart_start, with n characters put and not yet transmitted; the
\* overrun counter is one short of saturation when the buffer is full.
UartInit ==
    /\ ao = reflow_init
    /\ \E n \in PendingBefore :
          /\ g = [tx_buf_get_idx |-> GetBefore,
                  tx_buf_put_idx |-> (GetBefore + n) % UART_TX_BUF_SIZE,
                  tx_buf |-> [k \in 0 .. UART_TX_BUF_SIZE - 1 |->
                                LET i == ((k + UART_TX_BUF_SIZE - GetBefore)
                                             % UART_TX_BUF_SIZE) + 1
                                IN IF i <= n THEN PendingChar(i) ELSE 0],
                  TXEIE |-> TRUE,
                  TXE |-> TRUE,
                  TDR |-> 0,
                  tx_buf_overrun |-> IF n = 0 THEN 0 ELSE UINT16_MAX - 1,
                  next_put_idx |-> 0,
                  c |-> 0,
                  ret |-> MOD_OK]
          /\ hist = [puts |-> 0, n0 |-> n, accepted |-> << >>, nsent |-> 0,
                     ok |-> TRUE, refused |-> 0]
    /\ queue = << >>
    /\ hpc = "idle"
    /\ evt = << >>
    /\ stat = IGNORE_STATUS
    /\ entries = 0
    /\ tpc = "idle"
    /\ temp_reading = 0
    /\ status = TRUE
    /\ ncmd = 0

UartRest == <<ao, queue, evt, stat, entries, tvars, ncmd>>

\* uart_putc line 164: the call and the next put index.
UartPutc ==
    /\ hpc = "idle"
    /\ hist.puts < MaxPuts
    /\ \E c \in PutChars :
         g' = [g EXCEPT !.c = c,
                        !.next_put_idx = (g.tx_buf_put_idx + 1) % UART_TX_BUF_SIZE]
    /\ hpc' = "full"
    /\ hist' = [hist EXCEPT !.puts = @ + 1]
    /\ UNCHANGED UartRest

\* uart_putc lines 167-171: the buffer is full.
UartPutcCheck ==
    /\ hpc = "full"
    /\ IF g.next_put_idx = g.tx_buf_get_idx
       THEN /\ g' = [g EXCEPT !.tx_buf_overrun = INC_SAT_U16(@),
                              !.ret = MOD_ERR_BUF_OVERRUN]
            /\ hpc' = "idle"
            /\ hist' = [hist EXCEPT !.refused = @ + 1]
       ELSE /\ hpc' = "place"
            /\ UNCHANGED <<g, hist>>
    /\ UNCHANGED UartRest

\* uart_putc line 174: the character is placed.
UartPutcPlace ==
    /\ hpc = "place"
    /\ g' = [g EXCEPT !.tx_buf[g.tx_buf_put_idx] = g.c]
    /\ hpc' = "advance"
    /\ UNCHANGED <<hist, UartRest>>

\* uart_putc line 175: the put index is advanced; the call returns MOD_OK
\* from here on, and the interrupt sees the character.
UartPutcAdvance ==
    /\ hpc = "advance"
    /\ g' = [g EXCEPT !.tx_buf_put_idx = g.next_put_idx]
    /\ hpc' = "txe"
    /\ hist' = [hist EXCEPT !.accepted = Append(@, g.c)]
    /\ UNCHANGED UartRest

\* uart_putc lines 178 and 185: the TXE interrupt enable is read.
UartPutcTxe ==
    /\ hpc = "txe"
    /\ IF ~g.TXEIE
       THEN hpc' = "enable" /\ g' = g
       ELSE hpc' = "idle" /\ g' = [g EXCEPT !.ret = MOD_OK]
    /\ UNCHANGED <<hist, UartRest>>

\* uart_putc lines 180-185: the TXE interrupt is enabled with interrupts off.
UartPutcEnable ==
    /\ hpc = "enable"
    /\ g' = [g EXCEPT !.TXEIE = TRUE, !.ret = MOD_OK]
    /\ hpc' = "idle"
    /\ UNCHANGED <<hist, UartRest>>

\* the k-th character accepted, the pending ones first
TxExpected(k) ==
    IF k <= hist.n0 THEN PendingChar(k)
    ELSE IF k - hist.n0 <= Len(hist.accepted) THEN hist.accepted[k - hist.n0]
    ELSE -1

\* UART_ISR lines 226-233 with TXE set in the status register.
UartIsrBody ==
    /\ g' = write_tdr(g)
    /\ hist' = IF g'.TXE
               THEN hist
               ELSE [hist EXCEPT !.nsent = @ + 1,
                                 !.ok = @ /\ g'.TDR = TxExpected(hist.nsent + 1)]
    /\ UNCHANGED <<hpc, UartRest>>

\* the interrupt is raised by TXE
UartIsrTxe ==
    /\ g.TXEIE
    /\ g.TXE
    /\ UartIsrBody

\* the interrupt is raised by a received character while TXE is set
UartIsrRxne ==
    /\ g.TXE
    /\ UartIsrBody

\* the USART moves TDR to the shift register and sets TXE
UartShift ==
    /\ ~g.TXE
    /\ g' = [g EXCEPT !.TXE = TRUE]
    /\ UNCHANGED <<hpc, hist, UartRest>>

UartPutcSteps ==
    UartPutcCheck \/ UartPutcPlace \/ UartPutcAdvance \/ UartPutcTxe \/ UartPutcEnable

UartNext ==
    \/ UartPutc
    \/ UartPutcCheck
    \/ UartPutcPlace
    \/ UartPutcAdvance
    \/ UartPutcTxe
    \/ UartPutcEnable
    \/ UartIsrTxe
    \/ UartIsrRxne
    \/ UartShift

\* the thread runs on, the USART shifts out, a pending interrupt is taken
UartSpec ==
    /\ UartInit
    /\ [][UartNext]_vars
    /\ WF_vars(UartPutcSteps)
    /\ WF_vars(UartIsrTxe)
    /\ WF_vars(UartShift)

\* the characters written to TDR are, in order, the first ones accepted
TxInPutOrder ==
    /\ hist.ok
    /\ hist.nsent <= hist.n0 + Len(hist.accepted)

\* between calls of uart_putc the TXE interrupt is enabled while characters
\* are pending
TxeLeftEnabled ==
    (hpc = "idle" /\ g.tx_buf_get_idx # g.tx_buf_put_idx) => g.TXEIE

\* the check of uart_putc on UART_TX_BUF_SIZE - 1 pending characters
TxFullLaw ==
    (hpc = "full" /\ hpc' # "full" /\ TxPending(g) = UART_TX_BUF_SIZE - 1) =>
        /\ hpc' = "idle"
        /\ g'.ret = MOD_ERR_BUF_OVERRUN
        /\ g'.tx_buf = g.tx_buf
        /\ g'.tx_buf_put_idx = g.tx_buf_put_idx
        /\ g'.tx_buf_get_idx = g.tx_buf_get_idx
        /\ g'.tx_buf_overrun =
              (IF g.tx_buf_overrun = UINT16_MAX THEN UINT16_MAX
               ELSE g.tx_buf_overrun + 1)

\* again and again every character accepted so far has been written to TDR
TxAllSent ==
    []<>(hist.nsent = hist.n0 + Len(hist.accepted))

\* C40: every character accepted by uart_putc is written to the transmit
\* register exactly once and in put order; uart_putc on a full buffer
\* returns MOD_ERR_BUF_OVERRUN, changes neither the buffer nor the indices
\* and increments the saturating overrun counter; the TXE interrupt is left
\* enabled while characters are pending, and no accepted character stays in
\* the buffer for ever.
C40_TxRingBuffer ==
    /\ []TxInPutOrder
    /\ []TxeLeftEnabled
    /\ [][TxFullLaw]_vars
    /\ TxAllSent

\* a full buffer refused two characters with the counter saturating, the
\* third was accepted after the interrupt made room, and all has been sent
\* with both indices wrapped
C40_Witness ==
    /\ hist.n0 = UART_TX_BUF_SIZE - 1
    /\ hist.refused = 2
    /\ g.tx_buf_overrun = UINT16_MAX
    /\ Len(hist.accepted) = 1
    /\ hist.nsent = hist.n0 + 1
    /\ g.tx_buf_get_idx = g.tx_buf_put_idx
    /\ hpc = "idle"

=============================================================================
